---- MODULE Spec2Model ----
(***************************************************************************)
(* A model of the authentication / authorization core of the PARMS         *)
(* backend: the token service, the lockout guard on the User model, the    *)
(* RBAC middleware, the connection helpers and the dashboard aggregation.  *)
(*                                                                         *)
(* Requests are handlers that suspend at every await: each handler is a    *)
(* chain of actions, one per database round trip, and a request slot holds *)
(* the handler's position (pc), its in-memory Mongoose document (doc) and  *)
(* its response (status).  The clock `now` counts whole seconds in         *)
(* abstract ticks; durations keep the order they have in the source.       *)
(***************************************************************************)
EXTENDS Integers, Sequences, FiniteSets, TLC

VARIABLES
    now,      \* Date.now(), in ticks
    cfg,      \* appConfig: the two JWT secrets and NODE_ENV
    users,    \* the `users` collection: principal -> stored document
    req,      \* in-flight and answered requests, per slot
    issued,   \* token pairs handed out in answered requests (what clients hold)
    streak,   \* per principal: wrong-password logins since the last successful one
    failAt,   \* per principal: time of the 5th wrong-password login in a row
    lockSeen, \* per principal: "rejected" once a right password was refused as
              \* locked, "recovered" once a login succeeded after that
    revoked,  \* per principal: refresh tokens a password change, a password
              \* reset or a logout found stored when it was answered 200, and
              \* that have not been issued again since
    checked,  \* the last token verification: what was presented and the outcome
    gate,     \* the last RBAC middleware run: the principal, the rule, the outcome
    db,       \* contents of the three stores the dashboard reads
    dash,     \* the dashboard request: position, queries issued so far, response
    conn,     \* per store: the cached connection's state
    handles,  \* the handles the connection helpers have returned
    stores,   \* per store: the mutating commands that reached it
    call,     \* the last call made through a handle, and its outcome
    proc,     \* the process: running or exited, the signal it got, and the
              \* state of the default connection (mongoose.connection)
    pats,     \* the `patients` collection: patient id -> stored document
    patq,     \* patient creations in flight, per slot
    rx,       \* the `prescriptions` collection: id -> stored document
    rxq,      \* prescription requests in flight and answered, per slot
    resetLog  \* what became of the reset tokens drawn so far: per raw token the
              \* expiry it was drawn with, the ones a reset has consumed, and
              \* the ones a later forgot-password request has replaced

authVars == <<now, cfg, users, req, issued, streak, failAt, lockSeen, revoked>>
dashVars == <<db, dash>>
fedVars  == <<conn, handles, stores, call, proc>>

clinVars == <<pats, patq, rx, rxq>>

vars == <<authVars, checked, gate, dashVars, fedVars, clinVars, resetLog>>

-----------------------------------------------------------------------------
(* Bounds of the model *)

MaxTime == 3
StreakCap == 6
MaxVersion == 3
MaxRefills == 2

Principals == {"u1", "u2"}
Passwords  == {"pw1", "pw2"}
Slots      == {1, 2}
Secrets    == {"k1", "k2"}
Envs       == {"development", "production", "test"}
ResetRaws  == {"r1", "r2"}

(* Program constants, in ticks *)

MaxAttempts == 5
LockTime    == 2
RefreshTtl  == 3
AccessTtl   == 2
ResetTtl    == 1
MaxTokens   == 5

Null == 0 - 1

NoUser == [none |-> TRUE]
NoDoc  == [none |-> TRUE]
NoTok  == [kind |-> "none", id |-> "none", iat |-> 0, key |-> "none"]

-----------------------------------------------------------------------------
(* Token service *)

\* jwt.sign of {id, type: 'access', iat}: the token is a function of its payload
\* and of the signing secret
generateAccessToken(id, t) ==
    [kind |-> "access", id |-> id, iat |-> t, key |-> cfg.secret]

generateRefreshToken(id, t) ==
    [kind |-> "refresh", id |-> id, iat |-> t, key |-> cfg.refreshSecret]

generateTokenPair(id, t) ==
    [accessToken |-> generateAccessToken(id, t),
     refreshToken |-> generateRefreshToken(id, t)]

NoPair == [accessToken |-> NoTok, refreshToken |-> NoTok]

\* expiresIn of jwt.sign, by the token's kind
Expiry(token) ==
    token.iat + (IF token.kind = "refresh" THEN RefreshTtl ELSE AccessTtl)

\* verifyToken trusting the secret alone: the kind tag is not looked at
verifyToken_untagged(token, type, t) ==
    LET secret == IF type = "refresh" THEN cfg.refreshSecret ELSE cfg.secret
    IN  IF token.key # secret THEN "Invalid token"
        ELSE IF t >= Expiry(token) THEN "Token has expired"
        ELSE "ok"

\* "ok", or the reason verifyToken throws
verifyToken(token, type, t) ==
    LET secret == IF type = "refresh" THEN cfg.refreshSecret ELSE cfg.secret
    IN  IF token.key # secret THEN "Invalid token"
        ELSE IF t >= Expiry(token) THEN "Token has expired"
        ELSE IF token.kind # type THEN "Invalid token type"
        ELSE "ok"

-----------------------------------------------------------------------------
(* User model *)

Hash(pw) == <<"bcrypt", pw>>

comparePassword(candidate, passwordHash) == passwordHash = Hash(candidate)

isLocked(u, t) == u.lockedUntil # Null /\ u.lockedUntil > t

changedPasswordAfter(u, jwtTimestamp) == jwtTimestamp < u.updatedAt

NoReset == <<"sha256", "none">>

NoResets == [expires |-> [raw \in ResetRaws |-> Null], used |-> {}, superseded |-> {}]

NewUser(p, pw, t) ==
    [id |-> p, pw |-> Hash(pw), isActive |-> TRUE, fails |-> 0,
     lockedUntil |-> Null, tokens |-> <<>>, v |-> 0, updatedAt |-> t,
     resetToken |-> NoReset, resetExpires |-> Null]

\* findOne / findById: a fresh in-memory document with nothing modified
Load(u) ==
    [id |-> u.id, pw |-> u.pw, isActive |-> u.isActive, fails |-> u.fails,
     lockedUntil |-> u.lockedUntil, tokens |-> u.tokens, v |-> u.v,
     updatedAt |-> u.updatedAt, resetToken |-> u.resetToken,
     resetExpires |-> u.resetExpires,
     dirtyTok |-> FALSE, dirtyPw |-> FALSE, dirtyReset |-> FALSE]

\* incrementLoginAttempts with the threshold test off by one (> for >=)
incrementLoginAttempts_late(s, d, t) ==
    IF d.lockedUntil # Null /\ d.lockedUntil < t
    THEN [s EXCEPT !.fails = 1, !.lockedUntil = Null, !.updatedAt = t]
    ELSE IF d.fails + 1 > MaxAttempts /\ ~isLocked(d, t)
         THEN [s EXCEPT !.fails = s.fails + 1, !.lockedUntil = t + LockTime,
                        !.updatedAt = t]
         ELSE [s EXCEPT !.fails = s.fails + 1, !.updatedAt = t]

\* the stored document after incrementLoginAttempts' updateOne: the update is
\* computed from the in-memory document d and applied to the stored one s
incrementLoginAttempts(s, d, t) ==
    IF d.lockedUntil # Null /\ d.lockedUntil < t
    THEN [s EXCEPT !.fails = 1, !.lockedUntil = Null, !.updatedAt = t]
    ELSE IF d.fails + 1 >= MaxAttempts /\ ~isLocked(d, t)
         THEN [s EXCEPT !.fails = s.fails + 1, !.lockedUntil = t + LockTime,
                        !.updatedAt = t]
         ELSE [s EXCEPT !.fails = s.fails + 1, !.updatedAt = t]

resetLoginAttempts(s, t) ==
    [s EXCEPT !.fails = 0, !.lockedUntil = Null, !.updatedAt = t]

Last(seq, n) ==
    IF Len(seq) > n THEN SubSeq(seq, Len(seq) - n + 1, Len(seq)) ELSE seq

\* pre('save'), run by save() at time t ahead of the write: drop the expired
\* refresh-token records
PreSave(d, t) ==
    LET Live(rt) == rt.expiresAt > t
        kept == SelectSeq(d.tokens, Live)
    IN  [d EXCEPT !.tokens = kept,
                  !.dirtyTok = d.dirtyTok \/ kept # d.tokens]

\* addRefreshToken without the trim to the last five
addRefreshToken_untrimmed(d, token, t) ==
    LET pushed == Append(d.tokens, [token |-> token, expiresAt |-> t + RefreshTtl])
    IN  [d EXCEPT !.tokens = pushed, !.dirtyTok = TRUE]

\* the in-memory document after addRefreshToken has pushed and trimmed; its
\* save() is SaveOk and SaveCommit
addRefreshToken(d, token, t) ==
    LET pushed == Append(d.tokens, [token |-> token, expiresAt |-> t + RefreshTtl])
    IN  [d EXCEPT !.tokens = Last(pushed, MaxTokens), !.dirtyTok = TRUE]

\* removeRefreshToken emptying the list, as removeAllRefreshTokens does
removeRefreshToken_all(d, token, t) ==
    [d EXCEPT !.tokens = <<>>, !.dirtyTok = d.dirtyTok \/ d.tokens # <<>>]

removeRefreshToken(d, token, t) ==
    LET Other(rt) == rt.token # token
        kept == SelectSeq(d.tokens, Other)
    IN  [d EXCEPT !.tokens = kept, !.dirtyTok = d.dirtyTok \/ kept # d.tokens]

removeAllRefreshTokens(d, t) ==
    [d EXCEPT !.tokens = <<>>, !.dirtyTok = d.dirtyTok \/ d.tokens # <<>>]

\* save(): an array that was set is written whole, under the version it was
\* loaded with (__v); a stale version makes the write fail (VersionError)
SaveOk(s, d, t) ==
    LET h == PreSave(d, t)
    IN  ~h.dirtyTok \/ s.v = h.v

\* the stored document after save() of d at time t: the hook, then the write
SaveCommit(s, d, t) ==
    LET h == PreSave(d, t)
    IN  IF ~h.dirtyTok /\ ~h.dirtyPw /\ ~h.dirtyReset THEN s
        ELSE [s EXCEPT !.tokens = IF h.dirtyTok THEN h.tokens ELSE s.tokens,
                       !.v = IF h.dirtyTok THEN s.v + 1 ELSE s.v,
                       !.pw = IF h.dirtyPw THEN h.pw ELSE s.pw,
                       !.resetToken = IF h.dirtyReset THEN h.resetToken
                                      ELSE s.resetToken,
                       !.resetExpires = IF h.dirtyReset THEN h.resetExpires
                                        ELSE s.resetExpires,
                       !.updatedAt = t]

\* the in-memory document once save() at time t has returned
Saved(d, t) ==
    LET h == PreSave(d, t)
    IN  [h EXCEPT !.v = IF h.dirtyTok THEN h.v + 1 ELSE h.v,
                  !.dirtyTok = FALSE, !.dirtyPw = FALSE, !.dirtyReset = FALSE]

TokenStrings(u) == {u.tokens[i].token : i \in 1..Len(u.tokens)}

\* user.refreshTokens.some(rt => rt.token === refreshToken && rt.expiresAt > now)
tokenExists(u, refreshToken, t) ==
    \E i \in 1..Len(u.tokens) :
        u.tokens[i].token = refreshToken /\ u.tokens[i].expiresAt > t

-----------------------------------------------------------------------------
(* RBAC middleware *)

\* role names a principal or an allowed list may carry: the five of the role
\* table and two that are not in it
RoleNames == {"patient", "frontdesk", "doctor", "admin", "superadmin",
              "nurse", "guest"}

PatientIds == {"pat1", "pat2"}

\* an ObjectId, by its hex string
ObjectIds == {[oid |-> h] : h \in PatientIds}
NoId      == [oid |-> "none"]
Undefined == "undefined"

\* profileId?.toString()
ToStr(o) == IF o = NoId THEN Undefined ELSE o.oid

\* req.user as authenticateJWT leaves it; Anonymous is req.user undefined
Anonymous == [role |-> "none", profileId |-> NoId]
ReqUsers  == {Anonymous} \cup [role : RoleNames, profileId : {NoId, [oid |-> "pat1"]}]

ROLE_HIERARCHY ==
    [patient |-> 1, frontdesk |-> 2, doctor |-> 3, admin |-> 4, superadmin |-> 5]

getRoleLevel(role) ==
    IF role \in DOMAIN ROLE_HIERARCHY THEN ROLE_HIERARCHY[role] ELSE 0

Min(S) == CHOOSE x \in S : \A y \in S : x <= y

\* requireRole comparing against the highest allowed level, as its header
\* comment words it, where the code takes the lowest
requireRole_highest(user, roles, requireHigher) ==
    IF user = Anonymous THEN 401
    ELSE IF requireHigher
         THEN IF roles = {} \/ \E r \in roles : getRoleLevel(user.role) < getRoleLevel(r)
              THEN 403 ELSE 0
         ELSE IF user.role \notin roles THEN 403 ELSE 0

\* 0 when the middleware calls next(), or the status of the AppError it throws.
\* The allowed list is taken as a set: Math.min and includes do not see order.
\* Math.min() of an empty list is Infinity, which no level reaches.
requireRole(user, roles, requireHigher) ==
    IF user = Anonymous THEN 401
    ELSE IF requireHigher
         THEN IF roles = {} \/ getRoleLevel(user.role) < Min({getRoleLevel(r) : r \in roles})
              THEN 403 ELSE 0
         ELSE IF user.role \notin roles THEN 403 ELSE 0

requireFrontDesk(user) == requireRole(user, {"frontdesk"}, TRUE)

requireDoctor(user) == requireRole(user, {"doctor", "admin"}, FALSE)

\* checkPatientAccess letting every patient through without comparing the ids
checkPatientAccess_uncompared(user, requestedPatientId) ==
    IF user = Anonymous THEN 401
    ELSE IF user.role = "doctor" \/ user.role = "admin" THEN 0
    ELSE IF user.role = "patient" THEN 0
    ELSE 403

checkPatientAccess(user, requestedPatientId) ==
    IF user = Anonymous THEN 401
    ELSE IF user.role = "doctor" \/ user.role = "admin" THEN 0
    ELSE IF user.role = "patient"
         THEN IF ToStr(user.profileId) # requestedPatientId THEN 403 ELSE 0
    ELSE 403

\* req.requireOwnershipCheck: "unset" while no middleware has set it
Unset == "unset"

\* checkAppointmentAccess flagging every role it lets through
checkAppointmentAccess_flagAll(user) ==
    IF user = Anonymous THEN [status |-> 401, requireOwnershipCheck |-> Unset]
    ELSE IF user.role \in {"frontdesk", "admin", "patient", "doctor"}
         THEN [status |-> 0, requireOwnershipCheck |-> "true"]
    ELSE [status |-> 403, requireOwnershipCheck |-> Unset]

\* the status as above, and req.requireOwnershipCheck as the middleware leaves it
checkAppointmentAccess(user) ==
    IF user = Anonymous THEN [status |-> 401, requireOwnershipCheck |-> Unset]
    ELSE IF user.role = "frontdesk" \/ user.role = "admin"
         THEN [status |-> 0, requireOwnershipCheck |-> Unset]
    ELSE IF user.role = "patient" \/ user.role = "doctor"
         THEN [status |-> 0, requireOwnershipCheck |-> "true"]
    ELSE [status |-> 403, requireOwnershipCheck |-> Unset]

\* user ids, by the hex string of the document's _id
UserIds == {"usr1", "usr2"}

\* a === b for req.user.id, which authenticateJWT sets to user._id (an
\* ObjectId), and a route parameter (a string): operands of different types
\* are never strictly equal
StrictEquals(a, b) == a.type = b.type /\ a.val = b.val

ObjectId(hex) == [type |-> "object", val |-> hex]
String(s)     == [type |-> "string", val |-> s]

\* the guard of GET /api/users/:id; req.user is set, authenticateJWT ran
getUserGuard(user, userId, targetUserId) ==
    LET isOwnProfile == StrictEquals(ObjectId(userId), String(targetUserId))
        isAdmin == user.role \in {"admin", "superadmin"}
    IN  IF ~isOwnProfile /\ ~isAdmin THEN 403 ELSE 0

checkOwnership(user, userId, resourceUserId) ==
    IF user = Anonymous THEN 401
    ELSE IF user.role = "admin" THEN 0
    ELSE IF ~StrictEquals(ObjectId(userId), String(resourceUserId)) THEN 403
    ELSE 0

NoGate ==
    [mw |-> "none", user |-> Anonymous, roles |-> {}, requireHigher |-> FALSE,
     requested |-> "none", status |-> 0, requireOwnershipCheck |-> Unset,
     userId |-> "none"]

-----------------------------------------------------------------------------
(* Stores behind the dashboard: patients and appointments in the primary     *)
(* store (PARMS), billings in IBMS, staff in HRMS                            *)

DoctorIds == {"d1", "d2"}

Appointments == [patientId : PatientIds, doctorId : DoctorIds]
Bills == [patientId : {"pat1"}, amountDue : {0, 2}]
            \cup {[patientId |-> "pat2", amountDue |-> 2]}
StaffRoles == {"absent", "doctor", "clerk"}

EmptyDb ==
    [patients |-> {}, appointments |-> {}, billings |-> {},
     staff |-> [d \in DoctorIds |-> "absent"]]

Dbs ==
    [patients : SUBSET PatientIds, appointments : SUBSET Appointments,
     billings : SUBSET Bills, staff : [DoctorIds -> StaffRoles]]

NoBody == [success |-> FALSE]

DashIdle ==
    [via |-> "none", pc |-> "idle", patientId |-> "none", appts |-> {},
     bills |-> {}, queries |-> <<>>, failed |-> "none", status |-> 0,
     outcome |-> "none", body |-> NoBody]

-----------------------------------------------------------------------------
(* Connection helpers *)

Stores   == {"parms", "ibms", "hrms"}
ReadOnly == {"ibms", "hrms"}

\* operations of a Mongoose model or connection, by whether they write
Ops == {"find", "insertOne", "deleteOne"}
Mutating(op) == op # "find"

NoHandle == [by |-> "none", store |-> "none", kind |-> "none"]
NoCall   == [handle |-> NoHandle, op |-> "none", sent |-> FALSE, outcome |-> "none"]

\* medical record numbers generateMRN can draw
Mrns == {"PAT1", "PAT2"}

NoPatient == [none |-> TRUE]
PatIdle   == [pc |-> "idle", id |-> "none", mrn |-> "none", status |-> 0]

RxIds  == {"rx1", "rx2"}
NoRx   == [none |-> TRUE]
RxIdle == [pc |-> "idle", op |-> "none", user |-> Anonymous, id |-> "none",
           status |-> 0, data |-> {}, doc |-> NoRx]

\* the process once its modules are loaded and startServer has been called
Started == [state |-> "running", signal |-> "none", main |-> "uninitialized"]

NoCheck ==
    [by |-> "none", token |-> NoTok, type |-> "none", result |-> "none", status |-> 0]

-----------------------------------------------------------------------------
(* Requests *)

\* a JSON response body: its message and the names of its other fields
NoReply == [message |-> "", fields |-> {}]

Idle ==
    [op |-> "none", pc |-> "idle", p |-> "none", pw |-> "none", npw |-> "none",
     tok |-> NoTok, doc |-> NoDoc, pair |-> NoPair, status |-> 0,
     found |-> FALSE, rival |-> FALSE, body |-> NoReply, raw |-> "none"]

Free(r) == req[r].pc \in {"idle", "done"}

Begin(op, p, pw, npw, tok) ==
    [Idle EXCEPT !.op = op, !.p = p, !.pw = pw, !.npw = npw, !.tok = tok]

Answer(q, status) ==
    [q EXCEPT !.pc = "done", !.status = status, !.doc = NoDoc, !.pair = NoPair,
              !.pw = "none", !.npw = "none"]

\* an answer whose body the model keeps
Reply(q, status, message, fields) ==
    [Answer(q, status) EXCEPT !.body = [message |-> message, fields |-> fields]]

\* the model stops starting handlers that write the token list of a document
\* whose version has reached MaxVersion
Fresh(p) == users[p] = NoUser \/ users[p].v < MaxVersion

\* a refresh token is written to the store: it is an outstanding grant again
Regranted(p, d) == [revoked EXCEPT ![p] = @ \ TokenStrings(d)]

\* the process after start-up, but for the configuration and the stores' contents
Boot ==
    /\ now = 0
    /\ users = [p \in Principals |-> NoUser]
    /\ req = [r \in Slots |-> Idle]
    /\ issued = {}
    /\ streak = [p \in Principals |-> 0]
    /\ failAt = [p \in Principals |-> 0]
    /\ lockSeen = [p \in Principals |-> "no"]
    /\ revoked = [p \in Principals |-> {}]
    /\ checked = NoCheck
    /\ gate = NoGate
    /\ dash = DashIdle
    /\ conn = [s \in Stores |-> "uninitialized"]
    /\ handles = {}
    /\ stores = [s \in Stores |-> {}]
    /\ call = NoCall
    /\ proc = Started
    /\ pats = [i \in PatientIds |-> NoPatient]
    /\ patq = [r \in Slots |-> PatIdle]
    /\ rx = [i \in RxIds |-> NoRx]
    /\ rxq = [r \in Slots |-> RxIdle]
    /\ resetLog = NoResets

\* two different secrets, empty stores
Init ==
    /\ Boot
    /\ cfg = [secret |-> "k1", refreshSecret |-> "k2", env |-> "production"]
    /\ db = EmptyDb

Tick(limit) ==
    /\ now < limit
    /\ now' = now + 1
    /\ UNCHANGED <<cfg, users, req, issued, streak, failAt, lockSeen, revoked>>
    /\ UNCHANGED <<checked, gate, dashVars, fedVars, clinVars, resetLog>>


Quiet == \A r \in Slots : Free(r)

Bump(n) == IF n < StreakCap THEN n + 1 ELSE n

\* the refresh and access tokens clients were handed
HeldRefresh == {pr.refreshToken : pr \in issued}
HeldAccess  == {pr.accessToken : pr \in issued}

\* 0 when the middleware calls next(), or the status of the error it throws
authenticateJWT(token, t) ==
    IF verifyToken(token, "access", t) # "ok" THEN 401
    ELSE LET u == users[token.id]
         IN  IF u = NoUser THEN 401
             ELSE IF ~u.isActive THEN 403
             ELSE IF isLocked(u, t) THEN 403
             ELSE IF changedPasswordAfter(u, token.iat) THEN 401
             ELSE 0

\* the write of a pending save() that ends a handler, and the handler's answer
StoreAndAnswer(r, okStatus) ==
    LET q == req[r]
        s == users[q.p]
    IN  IF SaveOk(s, q.doc, now)
        THEN /\ users' = [users EXCEPT ![q.p] = SaveCommit(s, q.doc, now)]
             /\ req' = [req EXCEPT ![r] = Answer(q, okStatus)]
             /\ issued' = issued \cup {q.pair}
             /\ revoked' = Regranted(q.p, PreSave(q.doc, now))
        ELSE /\ req' = [req EXCEPT ![r] = Answer(q, 500)]
             /\ UNCHANGED <<users, issued, revoked>>

-----------------------------------------------------------------------------
(* POST /auth/register *)

Register_Find(r, p, pw) ==
    /\ Free(r)
    /\ req' = [req EXCEPT ![r] =
            IF users[p] # NoUser
            THEN Answer(Begin("register", p, pw, "none", NoTok), 409)
            ELSE [Begin("register", p, pw, "none", NoTok) EXCEPT !.pc = "create"]]
    /\ UNCHANGED <<now, cfg, users, issued, streak, failAt, lockSeen, revoked>>
    /\ UNCHANGED <<checked, gate, dashVars, fedVars, clinVars, resetLog>>

Register_Create(r) ==
    LET q == req[r]
        pair == generateTokenPair(q.p, now)
    IN  /\ q.op = "register" /\ q.pc = "create"
        /\ IF users[q.p] # NoUser
           THEN /\ req' = [req EXCEPT ![r] = Answer(q, 409)]
                /\ UNCHANGED users
           ELSE /\ users' = [users EXCEPT ![q.p] = NewUser(q.p, q.pw, now)]
                /\ req' = [req EXCEPT ![r] =
                       [q EXCEPT !.pc = "store", !.pair = pair,
                                 !.doc = addRefreshToken(Load(NewUser(q.p, q.pw, now)),
                                                         pair.refreshToken, now)]]
        /\ UNCHANGED <<now, cfg, issued, streak, failAt, lockSeen, revoked>>
        /\ UNCHANGED <<checked, gate, dashVars, fedVars, clinVars, resetLog>>

Register_Store(r) ==
    /\ req[r].op = "register" /\ req[r].pc = "store"
    /\ StoreAndAnswer(r, 201)
    /\ UNCHANGED <<now, cfg, streak, failAt, lockSeen>>
    /\ UNCHANGED <<checked, gate, dashVars, fedVars, clinVars, resetLog>>

-----------------------------------------------------------------------------
(* POST /auth/login *)

InvalidLogin  == "Invalid email or password"
LockedAccount == "Account is temporarily locked due to multiple failed login attempts"
Inactive      == "Account is inactive. Please contact support."

\* the fields of the body errorHandler builds
ErrorFields ==
    {"success", "statusCode", "message", "timestamp"} \cup
        IF cfg.env # "production" THEN {"stack", "details", "errors"} ELSE {}

\* errorHandler's answer to an AppError; the messages of the login route hold
\* no email, phone number or id for sanitizeErrorMessage to rewrite
ErrorReply(q, e) == Reply(q, e.status, e.message, ErrorFields)

\* the checks of POST /login with the lock looked at only once the password
\* has turned out wrong
LoginGate_lockAfterPassword(u, pw, t) ==
    IF u = NoUser THEN [status |-> 401, message |-> InvalidLogin]
    ELSE IF isLocked(u, t) /\ ~comparePassword(pw, u.pw)
         THEN [status |-> 403, message |-> LockedAccount]
    ELSE IF ~u.isActive THEN [status |-> 403, message |-> Inactive]
    ELSE [status |-> 0, message |-> ""]

\* the checks of POST /login that come before the password is compared: the
\* AppError thrown, or status 0 when the handler goes on to comparePassword
LoginGate(u, pw, t) ==
    IF u = NoUser THEN [status |-> 401, message |-> InvalidLogin]
    ELSE IF isLocked(u, t) THEN [status |-> 403, message |-> LockedAccount]
    ELSE IF ~u.isActive THEN [status |-> 403, message |-> Inactive]
    ELSE [status |-> 0, message |-> ""]

Login_Find(r, p, pw) ==
    LET u == users[p]
        q == Begin("login", p, pw, "none", NoTok)
        g == LoginGate(u, pw, now)
    IN  /\ Free(r)
        /\ u # NoUser /\ comparePassword(pw, u.pw) => Fresh(p)
        /\ req' = [req EXCEPT ![r] =
               IF g.status # 0 THEN ErrorReply(q, g)
               ELSE [q EXCEPT !.pc = "compare", !.doc = Load(u)]]
        /\ lockSeen' = IF u # NoUser /\ isLocked(u, now) /\ comparePassword(pw, u.pw)
                       THEN [lockSeen EXCEPT ![p] = "rejected"]
                       ELSE lockSeen
        /\ UNCHANGED <<now, cfg, users, issued, streak, failAt, revoked>>
        /\ UNCHANGED <<checked, gate, dashVars, fedVars, clinVars, resetLog>>

Login_Compare(r) ==
    LET q == req[r]
        pair == generateTokenPair(q.p, now)
    IN  /\ q.op = "login" /\ q.pc = "compare"
        /\ IF ~comparePassword(q.pw, q.doc.pw)
           THEN /\ users' = [users EXCEPT ![q.p] =
                                 incrementLoginAttempts(users[q.p], q.doc, now)]
                /\ req' = [req EXCEPT ![r] =
                       ErrorReply(q, [status |-> 401, message |-> InvalidLogin])]
                /\ streak' = [streak EXCEPT ![q.p] = Bump(@)]
                /\ failAt' = IF Bump(streak[q.p]) = MaxAttempts
                             THEN [failAt EXCEPT ![q.p] = now] ELSE failAt
                /\ UNCHANGED lockSeen
           ELSE /\ users' = [users EXCEPT ![q.p] = resetLoginAttempts(users[q.p], now)]
                /\ req' = [req EXCEPT ![r] =
                       [q EXCEPT !.pc = "store", !.pair = pair,
                                 !.doc = addRefreshToken(q.doc, pair.refreshToken, now)]]
                /\ streak' = [streak EXCEPT ![q.p] = 0]
                /\ lockSeen' = [lockSeen EXCEPT ![q.p] =
                                    IF @ = "rejected" THEN "recovered" ELSE @]
                /\ UNCHANGED failAt
        /\ UNCHANGED <<now, cfg, issued, revoked>>
        /\ UNCHANGED <<checked, gate, dashVars, fedVars, clinVars, resetLog>>

Login_Store(r) ==
    /\ req[r].op = "login" /\ req[r].pc = "store"
    /\ StoreAndAnswer(r, 200)
    /\ UNCHANGED <<now, cfg, streak, failAt, lockSeen>>
    /\ UNCHANGED <<checked, gate, dashVars, fedVars, clinVars, resetLog>>

-----------------------------------------------------------------------------
(* POST /auth/refresh-token *)

\* another refresh call presenting the same token is in flight
Rival(r, tok) ==
    \E o \in Slots \ {r} : req[o].op = "refresh" /\ ~Free(o) /\ req[o].tok = tok

Refresh_Find(r, tok) ==
    LET q == [Begin("refresh", tok.id, "none", "none", tok) EXCEPT
                  !.rival = Rival(r, tok)]
        u == users[tok.id]
        mine ==
            IF verifyToken(tok, "refresh", now) # "ok" THEN Answer(q, 500)
            ELSE IF u = NoUser THEN Answer(q, 401)
            ELSE IF ~u.isActive THEN Answer(q, 403)
            ELSE IF ~tokenExists(u, tok, now) THEN Answer(q, 401)
            ELSE [q EXCEPT !.pc = "remove", !.found = TRUE,
                           !.pair = generateTokenPair(u.id, now),
                           !.doc = removeRefreshToken(Load(u), tok, now)]
    IN  /\ Free(r)
        /\ tok \in HeldRefresh
        /\ (verifyToken(tok, "refresh", now) = "ok" /\ u # NoUser
              /\ tokenExists(u, tok, now)) => Fresh(tok.id)
        /\ req' = [o \in Slots |->
               IF o = r THEN mine
               ELSE IF req[o].op = "refresh" /\ ~Free(o) /\ req[o].tok = tok
                    THEN [req[o] EXCEPT !.rival = TRUE]
                    ELSE req[o]]
        /\ UNCHANGED <<now, cfg, users, issued, streak, failAt, lockSeen, revoked>>
        /\ UNCHANGED <<checked, gate, dashVars, fedVars, clinVars, resetLog>>

Refresh_Remove(r) ==
    LET q == req[r]
        s == users[q.p]
    IN  /\ q.op = "refresh" /\ q.pc = "remove"
        /\ IF SaveOk(s, q.doc, now)
           THEN /\ users' = [users EXCEPT ![q.p] = SaveCommit(s, q.doc, now)]
                /\ req' = [req EXCEPT ![r] =
                       [q EXCEPT !.pc = "store",
                                 !.doc = addRefreshToken(Saved(q.doc, now),
                                                         q.pair.refreshToken, now)]]
           ELSE /\ req' = [req EXCEPT ![r] = Answer(q, 500)]
                /\ UNCHANGED users
        /\ UNCHANGED <<now, cfg, issued, streak, failAt, lockSeen, revoked>>
        /\ UNCHANGED <<checked, gate, dashVars, fedVars, clinVars, resetLog>>

Refresh_Store(r) ==
    /\ req[r].op = "refresh" /\ req[r].pc = "store"
    /\ StoreAndAnswer(r, 200)
    /\ UNCHANGED <<now, cfg, streak, failAt, lockSeen>>
    /\ UNCHANGED <<checked, gate, dashVars, fedVars, clinVars, resetLog>>

-----------------------------------------------------------------------------
(* POST /auth/change-password *)

ChangePassword_Auth(r, acc, pw, npw) ==
    LET q == Begin("changepw", acc.id, pw, npw, NoTok)
        a == authenticateJWT(acc, now)
    IN  /\ Free(r)
        /\ acc \in HeldAccess
        /\ a = 0 => Fresh(acc.id)
        /\ req' = [req EXCEPT ![r] =
               IF a # 0 THEN Answer(q, a) ELSE [q EXCEPT !.pc = "find"]]
        /\ UNCHANGED <<now, cfg, users, issued, streak, failAt, lockSeen, revoked>>
        /\ UNCHANGED <<checked, gate, dashVars, fedVars, clinVars, resetLog>>

ChangePassword_Find(r) ==
    LET q == req[r]
    IN  /\ q.op = "changepw" /\ q.pc = "find"
        /\ req' = [req EXCEPT ![r] = [q EXCEPT !.pc = "compare", !.doc = Load(users[q.p])]]
        /\ UNCHANGED <<now, cfg, users, issued, streak, failAt, lockSeen, revoked>>
        /\ UNCHANGED <<checked, gate, dashVars, fedVars, clinVars, resetLog>>

ChangePassword_Compare(r) ==
    LET q == req[r]
    IN  /\ q.op = "changepw" /\ q.pc = "compare"
        /\ req' = [req EXCEPT ![r] =
               IF ~comparePassword(q.pw, q.doc.pw) THEN Answer(q, 401)
               ELSE [q EXCEPT !.pc = "save",
                              !.doc = removeAllRefreshTokens(
                                        [q.doc EXCEPT !.pw = Hash(q.npw), !.dirtyPw = TRUE],
                                        now)]]
        /\ UNCHANGED <<now, cfg, users, issued, streak, failAt, lockSeen, revoked>>
        /\ UNCHANGED <<checked, gate, dashVars, fedVars, clinVars, resetLog>>

ChangePassword_Save(r) ==
    LET q == req[r]
        s == users[q.p]
        pair == generateTokenPair(q.p, now)
    IN  /\ q.op = "changepw" /\ q.pc = "save"
        /\ IF SaveOk(s, q.doc, now)
           THEN /\ users' = [users EXCEPT ![q.p] = SaveCommit(s, q.doc, now)]
                /\ req' = [req EXCEPT ![r] = Answer(q, 200)]
                /\ issued' = issued \cup {pair}
                /\ revoked' = [revoked EXCEPT ![q.p] = @ \cup TokenStrings(s)]
           ELSE /\ req' = [req EXCEPT ![r] = Answer(q, 500)]
                /\ UNCHANGED <<users, issued, revoked>>
        /\ UNCHANGED <<now, cfg, streak, failAt, lockSeen>>
        /\ UNCHANGED <<checked, gate, dashVars, fedVars, clinVars, resetLog>>

-----------------------------------------------------------------------------
(* Requests served one at a time: the whole session life of one principal *)

Next ==
    \/ Tick(MaxTime)
    \/ Quiet /\ Register_Find(1, "u1", "pw1")
    \/ Register_Create(1)
    \/ Register_Store(1)
    \/ \E pw \in Passwords : Quiet /\ Login_Find(1, "u1", pw)
    \/ Login_Compare(1)
    \/ Login_Store(1)
    \/ \E tok \in HeldRefresh : Quiet /\ Refresh_Find(1, tok)
    \/ Refresh_Remove(1)
    \/ Refresh_Store(1)
    \/ \E acc \in HeldAccess, pw \in Passwords, npw \in Passwords :
           Quiet /\ ChangePassword_Auth(1, acc, pw, npw)
    \/ ChangePassword_Find(1)
    \/ ChangePassword_Compare(1)
    \/ ChangePassword_Save(1)

Spec == Init /\ [][Next]_vars

(* Two refresh requests of one principal in flight together *)

NextRace ==
    \/ Tick(MaxTime)
    \/ Quiet /\ Register_Find(1, "u1", "pw1")
    \/ Register_Create(1)
    \/ Register_Store(1)
    \/ \E r \in Slots, tok \in HeldRefresh : Refresh_Find(r, tok)
    \/ \E r \in Slots : Refresh_Remove(r)
    \/ \E r \in Slots : Refresh_Store(r)

SpecRace == Init /\ [][NextRace]_vars

-----------------------------------------------------------------------------
(* Lockout *)

RightPassword(p, pw) == users[p] # NoUser /\ comparePassword(pw, users[p].pw)

\* C1: after 5 wrong-password logins in a row the next login is refused as
\* locked (403) whatever the password; once the lock window has elapsed a
\* login with the right password goes through, is answered 200, and leaves
\* failedLoginAttempts = 0 and accountLockedUntil cleared.
C1_LockoutAfterFive ==
    [][\A p \in Principals :
        /\ \A pw \in Passwords :
             (Login_Find(1, p, pw) /\ streak[p] = 5) =>
                 IF now < failAt[p] + LockTime
                 THEN req'[1].pc = "done" /\ req'[1].status = 403
                 ELSE RightPassword(p, pw) => req'[1].pc = "compare"
        /\ (Login_Compare(1) /\ req[1].p = p /\ RightPassword(p, req[1].pw)) =>
               req'[1].pc = "store"
        /\ (Login_Store(1) /\ req[1].p = p) =>
               /\ req'[1].status = 200
               /\ users'[p].fails = 0
               /\ users'[p].lockedUntil = Null]_vars

\* a right password was refused during the lock, and a later login succeeded
C1_Witness ==
    \E p \in Principals :
        /\ lockSeen[p] = "recovered"
        /\ req[1].op = "login" /\ req[1].p = p /\ req[1].status = 200
        /\ users[p].fails = 0 /\ users[p].lockedUntil = Null

\* C12: while the account is locked, a login is answered 403 with the lock
\* message and writes nothing, and the answer to one password is the answer
\* the checks give for every other password, right or wrong.
C12_LockedLoginSameAnswer ==
    [][\A p \in Principals, pw \in Passwords :
        (Login_Find(1, p, pw) /\ users[p] # NoUser /\ isLocked(users[p], now)) =>
            /\ req'[1].pc = "done" /\ req'[1].status = 403
            /\ req'[1].body.message = LockedAccount
            /\ users' = users
            /\ \A other \in Passwords :
                   LET g == LoginGate(users[p], other, now)
                   IN  /\ req'[1].status = g.status
                       /\ req'[1].body = [message |-> g.message, fields |-> ErrorFields]]_vars

\* a locked account has refused the right password, and now a wrong one
C12_Witness ==
    \E p \in Principals :
        /\ users[p] # NoUser /\ isLocked(users[p], now)
        /\ lockSeen[p] = "rejected"
        /\ req[1].op = "login" /\ req[1].p = p /\ req[1].status = 403
        /\ req[1].body.message = LockedAccount
        /\ streak[p] = 5

-----------------------------------------------------------------------------
(* Refresh rotation *)

\* two answered refresh calls that presented the same token while both were
\* in flight, one of which at least found the token stored and unexpired
Raced(a, b) ==
    /\ a # b
    /\ req[a].op = "refresh" /\ req[b].op = "refresh"
    /\ req[a].pc = "done" /\ req[b].pc = "done"
    /\ req[a].tok = req[b].tok
    /\ req[a].rival /\ req[b].rival
    /\ req[a].found \/ req[b].found

\* C2: of two concurrent refresh calls presenting the same stored, unexpired
\* token, one is answered 200 with a new pair and the other 401 (invalid token).
C2_RotationAtMostOnce ==
    \A a \in Slots, b \in Slots :
        Raced(a, b) => {req[a].status, req[b].status} = {200, 401}

\* the part of C2 the version check of save() does give: never two new pairs
RaceNeverBothSucceed ==
    \A a \in Slots, b \in Slots :
        Raced(a, b) => ~(req[a].status = 200 /\ req[b].status = 200)

-----------------------------------------------------------------------------
(* Password change *)

\* C3: after a successful change-password none of the refresh tokens stored
\* before it is in the stored list, and a refresh-token call presenting one of
\* them is answered 401.
C3_PasswordChangeRevokes ==
    [][/\ \A p \in Principals :
            users'[p] # NoUser => revoked'[p] \cap TokenStrings(users'[p]) = {}
       /\ \A tok \in HeldRefresh :
            (Refresh_Find(1, tok) /\ tok \in revoked[tok.id]) =>
                req'[1].pc = "done" /\ req'[1].status = 401]_vars

\* the same, for the pre-change tokens whose own JWT expiry has not passed
PasswordChangeRevokesLive ==
    [][/\ \A p \in Principals :
            users'[p] # NoUser => revoked'[p] \cap TokenStrings(users'[p]) = {}
       /\ \A tok \in HeldRefresh :
            (Refresh_Find(1, tok) /\ tok \in revoked[tok.id]) =>
                /\ req'[1].pc = "done"
                /\ req'[1].status = IF now < Expiry(tok) THEN 401 ELSE 500]_vars

-----------------------------------------------------------------------------
(* Token verification under every configuration of the two secrets *)

Held == HeldRefresh \cup HeldAccess

\* a direct call of verifyToken on a token a client holds
VerifyToken(tok, type) ==
    /\ tok \in Held
    /\ checked' = [by |-> "verifyToken", token |-> tok, type |-> type,
                   result |-> verifyToken(tok, type, now), status |-> 0]
    /\ UNCHANGED <<authVars, gate, dashVars, fedVars, clinVars, resetLog>>

\* a request carrying the token as its bearer token reaches authenticateJWT
Authenticate(tok) ==
    /\ tok \in Held
    /\ checked' = [by |-> "authenticateJWT", token |-> tok, type |-> "access",
                   result |-> verifyToken(tok, "access", now),
                   status |-> authenticateJWT(tok, now)]
    /\ UNCHANGED <<authVars, gate, dashVars, fedVars, clinVars, resetLog>>

InitToken ==
    /\ Boot
    /\ cfg \in [secret : Secrets, refreshSecret : Secrets, env : {"production"}]
    /\ db = EmptyDb

NextToken ==
    \/ Tick(MaxTime)
    \/ \E p \in Principals : Quiet /\ Register_Find(1, p, "pw1")
    \/ Register_Create(1)
    \/ Register_Store(1)
    \/ \E tok \in Held, type \in {"access", "refresh"} : VerifyToken(tok, type)
    \/ \E tok \in Held : Authenticate(tok)

SpecToken == InitToken /\ [][NextToken]_vars

\* C4: verifyToken accepts a token only when the kind tag in its payload is
\* the expected kind, whatever the two secrets are (equal ones included): a
\* refresh token is never accepted as an access token, by verifyToken or by
\* authenticateJWT, and an access token is never accepted as a refresh token.
C4_KindTagChecked ==
    /\ (checked.by = "verifyToken" /\ checked.result = "ok") =>
           checked.token.kind = checked.type
    /\ (checked.by = "authenticateJWT" /\ checked.token.kind = "refresh") =>
           checked.result # "ok" /\ checked.status = 401

\* with both secrets the same string, a live refresh token presented as an
\* access token passes the signature and expiry checks and is refused on its tag
C4_Witness ==
    /\ cfg.secret = cfg.refreshSecret
    /\ checked.by = "verifyToken"
    /\ checked.token.kind = "refresh" /\ checked.type = "access"
    /\ checked.result = "Invalid token type"

-----------------------------------------------------------------------------
(* RBAC middleware runs *)

MaxRoles == 2

\* the allowed lists routes are built with: up to MaxRoles names
AllowedLists == {roles \in SUBSET RoleNames : Cardinality(roles) <= MaxRoles}

RequireRole(user, roles, requireHigher) ==
    /\ gate' = [mw |-> "requireRole", user |-> user, roles |-> roles,
                requireHigher |-> requireHigher, requested |-> "none",
                status |-> requireRole(user, roles, requireHigher),
                requireOwnershipCheck |-> Unset, userId |-> "none"]
    /\ UNCHANGED <<authVars, checked, dashVars, fedVars, clinVars, resetLog>>

RequireFrontDesk(user) ==
    /\ gate' = [mw |-> "requireFrontDesk", user |-> user, roles |-> {"frontdesk"},
                requireHigher |-> TRUE, requested |-> "none",
                status |-> requireFrontDesk(user),
                requireOwnershipCheck |-> Unset, userId |-> "none"]
    /\ UNCHANGED <<authVars, checked, dashVars, fedVars, clinVars, resetLog>>

CheckPatientAccess(user, requestedPatientId) ==
    /\ gate' = [mw |-> "checkPatientAccess", user |-> user, roles |-> {},
                requireHigher |-> FALSE, requested |-> requestedPatientId,
                status |-> checkPatientAccess(user, requestedPatientId),
                requireOwnershipCheck |-> Unset, userId |-> "none"]
    /\ UNCHANGED <<authVars, checked, dashVars, fedVars, clinVars, resetLog>>

CheckAppointmentAccess(user) ==
    LET c == checkAppointmentAccess(user)
    IN  /\ gate' = [mw |-> "checkAppointmentAccess", user |-> user, roles |-> {},
                    requireHigher |-> FALSE, requested |-> "none",
                    status |-> c.status,
                    requireOwnershipCheck |-> c.requireOwnershipCheck,
                    userId |-> "none"]
        /\ UNCHANGED <<authVars, checked, dashVars, fedVars, clinVars, resetLog>>

GetUserGuard(user, userId, targetUserId) ==
    /\ gate' = [mw |-> "getUserGuard", user |-> user, roles |-> {},
                requireHigher |-> FALSE, requested |-> targetUserId,
                status |-> getUserGuard(user, userId, targetUserId),
                requireOwnershipCheck |-> Unset, userId |-> userId]
    /\ UNCHANGED <<authVars, checked, dashVars, fedVars, clinVars, resetLog>>

CheckOwnership(user, userId, resourceUserId) ==
    /\ gate' = [mw |-> "checkOwnership", user |-> user, roles |-> {},
                requireHigher |-> FALSE, requested |-> resourceUserId,
                status |-> checkOwnership(user, userId, resourceUserId),
                requireOwnershipCheck |-> Unset, userId |-> userId]
    /\ UNCHANGED <<authVars, checked, dashVars, fedVars, clinVars, resetLog>>

NextRbac ==
    \/ \E user \in ReqUsers, roles \in AllowedLists, requireHigher \in BOOLEAN :
           RequireRole(user, roles, requireHigher)
    \/ \E user \in ReqUsers : RequireFrontDesk(user)
    \/ \E user \in ReqUsers, id \in PatientIds : CheckPatientAccess(user, id)
    \/ \E user \in ReqUsers : CheckAppointmentAccess(user)
    \/ \E user \in ReqUsers \ {Anonymous}, id \in UserIds, target \in UserIds :
           GetUserGuard(user, id, target)
    \/ \E user \in ReqUsers, id \in UserIds, target \in UserIds :
           CheckOwnership(user, IF user = Anonymous THEN "none" ELSE id, target)

SpecRbac == Init /\ [][NextRbac]_vars

Authenticated == gate.user # Anonymous
KnownRoles    == DOMAIN ROLE_HIERARCHY
OwnProfile    == ToStr(gate.user.profileId) = gate.requested

\* C5 as the specification words it: a patient is refused (403) any patient id
\* but that of their own profile and passes for their own; frontdesk, doctor,
\* admin and superadmin pass for any requested id.
C5_OwnershipAsSpecified ==
    (gate.mw = "checkPatientAccess" /\ Authenticated) =>
        /\ (gate.user.role = "patient" /\ ~OwnProfile) => gate.status = 403
        /\ (gate.user.role = "patient" /\ OwnProfile) => gate.status = 0
        /\ gate.user.role \in {"frontdesk", "doctor", "admin", "superadmin"} =>
               gate.status = 0

\* C5, amended: a patient is refused (403) any patient id but that of their
\* own profile and passes for their own; doctor and admin pass for any
\* requested id; every other role (frontdesk and superadmin among them) is
\* refused with 403.
C5_Ownership ==
    (gate.mw = "checkPatientAccess" /\ Authenticated) =>
        /\ (gate.user.role = "patient" /\ ~OwnProfile) => gate.status = 403
        /\ (gate.user.role = "patient" /\ OwnProfile) => gate.status = 0
        /\ gate.user.role \in {"doctor", "admin"} => gate.status = 0
        /\ gate.user.role \notin {"patient", "doctor", "admin"} => gate.status = 403

\* a patient asked for a patient id other than their own and was refused
C5_Witness ==
    /\ gate.mw = "checkPatientAccess"
    /\ gate.user.role = "patient" /\ gate.user.profileId # NoId
    /\ ~OwnProfile
    /\ gate.status = 403

C7_UnknownRolesDenied ==
    (gate.mw = "requireRole" /\ Authenticated /\ gate.user.role \notin KnownRoles) =>
        /\ getRoleLevel(gate.user.role) = 0
        /\ gate.requireHigher => gate.status = 403
        /\ (~gate.requireHigher /\ gate.roles \subseteq KnownRoles) => gate.status = 403

\* the part of C7 that holds: allowed lists made of known roles only
UnknownRolesDeniedByKnownLists ==
    (gate.mw = "requireRole" /\ Authenticated /\ gate.user.role \notin KnownRoles
        /\ gate.roles \subseteq KnownRoles) => gate.status = 403

-----------------------------------------------------------------------------
(* Patient dashboard: GET /api/patient-dashboard/:patientId (via "route",     *)
(* once authenticateJWT has let the request through) and getPatientDashboard *)
(* (via "function").  Each query is one step; its input `ok` is whether the   *)
(* store answered, or failed or timed out.                                    *)

RECURSIVE Sum(_)
Sum(S) ==
    IF S = {} THEN 0
    ELSE LET b == CHOOSE x \in S : TRUE
         IN  b.amountDue + Sum(S \ {b})

\* Patient.findById(patientId).lean()
findPatient(patientId) == IF patientId \in db.patients THEN patientId ELSE "null"

\* the test for a missing patient left out: a missing patient is taken for a found one
Missing_skipped(patient) == FALSE

\* if (!patient)
Missing(patient) == patient = "null"

\* a rejected query: the route's catch hands the error to next(), which
\* errorHandler answers 500; the function's catch throws it again
Fail(q, store) ==
    [q EXCEPT !.pc = "done", !.failed = store, !.outcome = "error",
              !.status = IF q.via = "route" THEN 500 ELSE 0]

NotFound(q) ==
    [q EXCEPT !.pc = "done", !.outcome = "Patient not found",
              !.status = IF q.via = "route" THEN 404 ELSE 0]

Asked(q, collection) == [q EXCEPT !.queries = Append(@, collection)]

Dash_Patient(via, patientId, ok) ==
    LET q == Asked([DashIdle EXCEPT !.via = via, !.patientId = patientId], "patients")
    IN  /\ dash.pc \in {"idle", "done"}
        /\ dash' = IF ~ok THEN Fail(q, "parms")
                   ELSE IF Missing(findPatient(patientId)) THEN NotFound(q)
                   ELSE [q EXCEPT !.pc = "appointments"]
        /\ UNCHANGED <<authVars, checked, gate, db, fedVars, clinVars, resetLog>>

Dash_Appointments(ok) ==
    LET q == Asked(dash, "appointments")
    IN  /\ dash.pc = "appointments"
        /\ dash' = IF ~ok THEN Fail(q, "parms")
                   ELSE [q EXCEPT !.pc = "billing",
                                  !.appts = {a \in db.appointments :
                                                 a.patientId = q.patientId}]
        /\ UNCHANGED <<authVars, checked, gate, db, fedVars, clinVars, resetLog>>

Dash_Billing(ok) ==
    LET q == Asked(dash, "billings")
    IN  /\ dash.pc = "billing"
        /\ dash' = IF ~ok THEN Fail(q, "ibms")
                   ELSE [q EXCEPT !.pc = "staff",
                                  !.bills = {b \in db.billings :
                                                 b.patientId = q.patientId}]
        /\ UNCHANGED <<authVars, checked, gate, db, fedVars, clinVars, resetLog>>

\* the staff query, the doctor lookup map and the combined response
Dash_Staff(ok) ==
    LET q == Asked(dash, "staff")
        doctorIds == {a.doctorId : a \in q.appts}
        doctors == {d \in doctorIds : db.staff[d] = "doctor"}
        doctorOf(a) == IF a.doctorId \in doctors THEN a.doctorId
                       ELSE IF q.via = "route" THEN "null" ELSE "Unknown"
        body == [success |-> TRUE,
                 patient |-> q.patientId,
                 appointments |-> {[doctorId |-> a.doctorId, doctor |-> doctorOf(a)] :
                                       a \in q.appts},
                 billing |-> [recentBills |-> q.bills,
                              totalOutstanding |-> Sum(q.bills)]]
    IN  /\ dash.pc = "staff"
        /\ dash' = IF ~ok THEN Fail(q, "hrms")
                   ELSE [q EXCEPT !.pc = "done", !.outcome = "success", !.body = body,
                                  !.status = IF q.via = "route" THEN 200 ELSE 0]
        /\ UNCHANGED <<authVars, checked, gate, db, fedVars, clinVars, resetLog>>

InitDash ==
    /\ Boot
    /\ cfg = [secret |-> "k1", refreshSecret |-> "k2", env |-> "production"]
    /\ db \in Dbs

NextDash ==
    \/ \E via \in {"route", "function"}, patientId \in PatientIds, ok \in BOOLEAN :
           Dash_Patient(via, patientId, ok)
    \/ \E ok \in BOOLEAN : Dash_Appointments(ok)
    \/ \E ok \in BOOLEAN : Dash_Billing(ok)
    \/ \E ok \in BOOLEAN : Dash_Staff(ok)

SpecDash == InitDash /\ [][NextDash]_vars

Marked(section) == "unavailable" \in DOMAIN section /\ section.unavailable

\* C8: when the patient is found and a read-only store (billing or staff)
\* fails, the call still succeeds: the patient section is populated, the
\* failed section carries the unavailable marker and the partial-data flag is
\* set; with billing down, every appointment's doctor comes from the staff map.
C8_PartialFailureTolerated ==
    (dash.pc = "done" /\ dash.failed \in ReadOnly) =>
        /\ dash.outcome = "success"
        /\ dash.via = "route" => dash.status = 200
        /\ dash.body.patient = dash.patientId
        /\ "partial" \in DOMAIN dash.body /\ dash.body.partial
        /\ dash.failed = "ibms" =>
               /\ Marked(dash.body.billing)
               /\ \A a \in dash.body.appointments :
                      db.staff[a.doctorId] = "doctor" => a.doctor = a.doctorId

\* what the code does instead: any failed query fails the whole call
AnyFailureFailsTheCall ==
    (dash.pc = "done" /\ dash.failed # "none") =>
        dash.outcome = "error" /\ (dash.via = "route" => dash.status = 500)

\* C9: the patient fetch is the first query of a dashboard call, and when the
\* patient does not exist the call ends with not-found (404 from the route)
\* having queried neither appointments, billings nor staff.
C9_PatientFetchGates ==
    /\ dash.queries # <<>> => Head(dash.queries) = "patients"
    /\ (dash.pc = "done" /\ dash.failed = "none" /\ dash.patientId \notin db.patients) =>
           /\ dash.outcome = "Patient not found"
           /\ dash.via = "route" => dash.status = 404
           /\ dash.queries = <<"patients">>

\* a missing patient who has appointments and bills on file was answered 404
C9_Witness ==
    /\ dash.pc = "done" /\ dash.via = "route" /\ dash.status = 404
    /\ dash.patientId \notin db.patients
    /\ \E a \in db.appointments : a.patientId = dash.patientId
    /\ \E b \in db.billings : b.patientId = dash.patientId

-----------------------------------------------------------------------------
(* Connection helpers: the handles they return and the calls made on them *)

\* connectToDatabasePARMS / IBMS / HRMS: the store's connection, opened on
\* first use and cached
connectToDatabase(store) == [conn EXCEPT ![store] = "connected"]

Handle(by, store, kind) == [by |-> by, store |-> store, kind |-> kind]

\* a helper awaits the store's connection and returns it, or a model
\* registered on it, as Mongoose made it
Obtain(h) ==
    /\ conn' = connectToDatabase(h.store)
    /\ handles' = handles \cup {h}
    /\ UNCHANGED <<stores, call, proc>>
    /\ UNCHANGED <<authVars, checked, gate, dashVars, clinVars, resetLog>>

createPARMSModel   == Obtain(Handle("createPARMSModel", "parms", "model"))
getIBMSModel       == Obtain(Handle("getIBMSModel", "ibms", "model"))
getHRMSModel       == Obtain(Handle("getHRMSModel", "hrms", "model"))
getPARMSConnection == Obtain(Handle("getPARMSConnection", "parms", "connection"))
getIBMSConnection  == Obtain(Handle("getIBMSConnection", "ibms", "connection"))
getHRMSConnection  == Obtain(Handle("getHRMSConnection", "hrms", "connection"))

\* a call on a handle: the Mongoose model or connection sends the command to
\* the handle's store.  `granted` is whether the account the connection
\* string names may write there, which the deployment decides.
HandleCall(h, op, granted) ==
    /\ h \in handles
    /\ (h.store = "parms" \/ ~Mutating(op)) => granted
    /\ stores' = [stores EXCEPT ![h.store] =
                      IF Mutating(op) /\ granted THEN @ \cup {op} ELSE @]
    /\ call' = [handle |-> h, op |-> op, sent |-> TRUE,
                outcome |-> IF granted THEN "ok" ELSE "MongoServerError"]
    /\ UNCHANGED <<conn, handles, proc>>
    /\ UNCHANGED <<authVars, checked, gate, dashVars, clinVars, resetLog>>

NextFed ==
    \/ createPARMSModel
    \/ getIBMSModel
    \/ getHRMSModel
    \/ getPARMSConnection
    \/ getIBMSConnection
    \/ getHRMSConnection
    \/ \E h \in handles, op \in Ops, granted \in BOOLEAN : HandleCall(h, op, granted)

SpecFed == Init /\ [][NextFed]_vars

\* C10: no mutating command reaches a read-only store (IBMS, HRMS), and a
\* mutating call on a handle of a read-only store is refused with a
\* ConfigurationError before anything is sent.
C10_ReadOnlyHandlesRejectWrites ==
    /\ \A s \in ReadOnly : stores[s] = {}
    /\ (call.handle.store \in ReadOnly /\ Mutating(call.op)) =>
           call.outcome = "ConfigurationError" /\ ~call.sent

\* reads through the handles of the read-only stores never change the stores
ReadsLeaveStoresAlone ==
    [][\A h \in handles : HandleCall(h, "find", TRUE) => stores' = stores]_vars

-----------------------------------------------------------------------------
(* POST /auth/forgot-password *)

\* crypto.createHash('sha256') of the raw reset token
Sha(raw) == <<"sha256", raw>>

\* the raw token a stored hash was made of
Raw(hash) == hash[2]

\* generatePasswordResetToken, for the random bytes drawn
generatePasswordResetToken(raw, t) ==
    [token |-> raw, hash |-> Sha(raw), expiresAt |-> t + ResetTtl]

Forgot_Find(r, p, raw) ==
    LET q == Begin("forgot", p, "none", "none", NoTok)
        u == users[p]
        g == generatePasswordResetToken(raw, now)
    IN  /\ Free(r)
        /\ u # NoUser => Fresh(p)
        /\ req' = [req EXCEPT ![r] =
               IF u = NoUser
               THEN Reply(q, 200,
                          "If the email exists, a password reset link has been sent",
                          {"success", "message"})
               ELSE [q EXCEPT !.pc = "save", !.found = TRUE,
                              !.doc = [Load(u) EXCEPT
                                           !.resetToken = g.hash,
                                           !.resetExpires = g.expiresAt,
                                           !.dirtyReset = TRUE]]]
        /\ resetLog' = IF u = NoUser THEN resetLog
                       ELSE [resetLog EXCEPT !.expires[raw] = g.expiresAt]
        /\ UNCHANGED <<now, cfg, users, issued, streak, failAt, lockSeen, revoked>>
        /\ UNCHANGED <<checked, gate, dashVars, fedVars, clinVars>>

Forgot_Save(r) ==
    LET q == req[r]
        s == users[q.p]
    IN  /\ q.op = "forgot" /\ q.pc = "save"
        /\ IF SaveOk(s, q.doc, now)
           THEN /\ users' = [users EXCEPT ![q.p] = SaveCommit(s, q.doc, now)]
                /\ req' = [req EXCEPT ![r] =
                       Reply(q, 200, "Password reset link sent to your email",
                             {"success", "message"} \cup
                                 IF cfg.env = "development" THEN {"resetToken"} ELSE {})]
                /\ resetLog' = [resetLog EXCEPT !.superseded =
                       @ \cup ({Raw(s.resetToken)} \ {"none", Raw(q.doc.resetToken)})]
           ELSE /\ req' = [req EXCEPT ![r] = Answer(q, 500)]
                /\ UNCHANGED <<users, resetLog>>
        /\ UNCHANGED <<now, cfg, issued, streak, failAt, lockSeen, revoked>>
        /\ UNCHANGED <<checked, gate, dashVars, fedVars, clinVars>>

InitReset ==
    /\ Boot
    /\ cfg \in [secret : {"k1"}, refreshSecret : {"k2"}, env : Envs]
    /\ db = EmptyDb

NextReset ==
    \/ Tick(MaxTime)
    \/ Quiet /\ Register_Find(1, "u1", "pw1")
    \/ Register_Create(1)
    \/ Register_Store(1)
    \/ \E r \in Slots, p \in Principals, raw \in ResetRaws : Forgot_Find(r, p, raw)
    \/ \E r \in Slots : Forgot_Save(r)

SpecReset == InitReset /\ [][NextReset]_vars

\* C11: two answered forgot-password requests, one for an email on file and
\* one for an email that is not, carry the same status and the same body (same
\* message, same fields), whatever NODE_ENV is.
C11_ForgotPasswordLeaksNothing ==
    \A a \in Slots, b \in Slots :
        (/\ req[a].op = "forgot" /\ req[a].pc = "done" /\ req[a].found
         /\ req[b].op = "forgot" /\ req[b].pc = "done" /\ ~req[b].found) =>
            req[a].status = req[b].status /\ req[a].body = req[b].body

-----------------------------------------------------------------------------
(* POST /auth/reset-password *)

\* the filter of findOne with the expiry left out
ResetMatch_anyExpiry(u, raw, t) ==
    u # NoUser /\ u.resetToken = Sha(raw)

\* the filter of findOne: the hash of the presented token is the stored one
\* and the stored expiry is in the future
ResetMatch(u, raw, t) ==
    u # NoUser /\ u.resetToken = Sha(raw) /\ u.resetExpires > t

\* hash the token, findOne; on a match set the password, unset the reset fields
\* and empty the token list of the loaded document
Reset_Find(r, raw, npw) ==
    LET matches == {p \in Principals : ResetMatch(users[p], raw, now)}
    IN  /\ Free(r)
        /\ \A p \in matches : Fresh(p)
        /\ IF matches = {}
           THEN req' = [req EXCEPT ![r] =
                    Answer([Begin("reset", "none", "none", npw, NoTok)
                                EXCEPT !.raw = raw], 400)]
           ELSE \E p \in matches :
                    req' = [req EXCEPT ![r] =
                        [Begin("reset", p, "none", npw, NoTok) EXCEPT
                            !.raw = raw, !.pc = "save", !.found = TRUE,
                            !.doc = removeAllRefreshTokens(
                                      [Load(users[p]) EXCEPT
                                          !.pw = Hash(npw), !.dirtyPw = TRUE,
                                          !.resetToken = NoReset,
                                          !.resetExpires = Null,
                                          !.dirtyReset = TRUE], now)]]
        /\ UNCHANGED <<now, cfg, users, issued, streak, failAt, lockSeen, revoked>>
        /\ UNCHANGED <<checked, gate, dashVars, fedVars, clinVars, resetLog>>

\* the save() of removeAllRefreshTokens writes everything that was set; the
\* save() after it finds nothing left to write
Reset_Save(r) ==
    LET q == req[r]
        s == users[q.p]
    IN  /\ q.op = "reset" /\ q.pc = "save"
        /\ IF SaveOk(s, q.doc, now)
           THEN /\ users' = [users EXCEPT ![q.p] = SaveCommit(s, q.doc, now)]
                /\ req' = [req EXCEPT ![r] = Answer(q, 200)]
                /\ revoked' = [revoked EXCEPT ![q.p] = @ \cup TokenStrings(s)]
                /\ resetLog' = [resetLog EXCEPT !.used = @ \cup {q.raw}]
           ELSE /\ req' = [req EXCEPT ![r] = Answer(q, 500)]
                /\ UNCHANGED <<users, revoked, resetLog>>
        /\ UNCHANGED <<now, cfg, issued, streak, failAt, lockSeen>>
        /\ UNCHANGED <<checked, gate, dashVars, fedVars, clinVars>>

\* the reset tokens no forgot-password request has drawn yet
Undrawn == {raw \in ResetRaws : resetLog.expires[raw] = Null}

\* forgot-password requests in flight together, resets one at a time
NextResetPw ==
    \/ Tick(MaxTime)
    \/ Quiet /\ Register_Find(1, "u1", "pw1")
    \/ Register_Create(1)
    \/ Register_Store(1)
    \/ \E r \in Slots, raw \in Undrawn : Forgot_Find(r, "u1", raw)
    \/ \E r \in Slots : Forgot_Save(r)
    \/ \E raw \in ResetRaws, npw \in Passwords : Quiet /\ Reset_Find(1, raw, npw)
    \/ Reset_Save(1)

SpecResetPw == Init /\ [][NextResetPw]_vars

\* the presented token was never drawn, has been consumed by a reset, has been
\* replaced by a later forgot-password request, or is past its expiry
DeadResetToken(raw) ==
    \/ resetLog.expires[raw] = Null
    \/ raw \in resetLog.used
    \/ raw \in resetLog.superseded
    \/ resetLog.expires[raw] <= now

\* C24: reset-password goes on to its save, the one way to 200, only for a
\* token whose hash is stored on a principal with an expiry in the future; a
\* token already consumed by a reset, replaced by a later forgot-password
\* request, past its expiry or never drawn is answered 400; a reset answered
\* 200 has left the principal's refresh-token list empty, the reset fields
\* unset and the new password stored, and its token is dead from then on.
C24_ResetTokenSingleUse ==
    [][/\ \A raw \in ResetRaws, npw \in Passwords :
            Reset_Find(1, raw, npw) =>
                /\ req'[1].pc \in {"save", "done"}
                /\ req'[1].pc = "done" => req'[1].status = 400
                /\ DeadResetToken(raw) => req'[1].pc = "done"
                /\ req'[1].pc = "save" =>
                       /\ users[req'[1].p].resetToken = Sha(raw)
                       /\ users[req'[1].p].resetExpires > now
       /\ (Reset_Save(1) /\ req'[1].status = 200) =>
            /\ users'[req[1].p].tokens = <<>>
            /\ users'[req[1].p].resetToken = NoReset
            /\ users'[req[1].p].pw = Hash(req[1].npw)
            /\ DeadResetToken(req[1].raw)']_vars

\* a reset has gone through for a principal holding refresh tokens, and the
\* same token presented again has been answered 400
C24_Witness ==
    /\ req[1].op = "reset" /\ req[1].pc = "done" /\ req[1].status = 400
    /\ req[1].raw \in resetLog.used
    /\ revoked["u1"] # {}
    /\ resetLog.superseded # {}

-----------------------------------------------------------------------------
(* Failed logins of one principal in flight together, among successful     *)
(* logins made one at a time                                                *)

NextLogins ==
    \/ Tick(MaxTime)
    \/ Quiet /\ Register_Find(1, "u1", "pw1")
    \/ Register_Create(1)
    \/ Register_Store(1)
    \/ \E r \in Slots : Login_Find(r, "u1", "pw2")
    \/ Quiet /\ Login_Find(1, "u1", "pw1")
    \/ \E r \in Slots : Login_Compare(r)
    \/ Login_Store(1)

SpecLogins == Init /\ [][NextLogins]_vars

\* the step is the resetLoginAttempts of a login of p whose password was right
ResetBySuccess(p) ==
    \E r \in Slots :
        /\ req[r].op = "login" /\ req[r].pc = "compare" /\ req[r].p = p
        /\ comparePassword(req[r].pw, req[r].doc.pw)
        /\ req'[r].pc = "store"

LockCleared(p) == users[p].lockedUntil # Null /\ users'[p].lockedUntil = Null
CountZeroed(p) == users[p].fails # 0 /\ users'[p].fails = 0

\* C13: every step that takes accountLockedUntil from set to cleared, or
\* failedLoginAttempts back to 0, is the resetLoginAttempts step of a login
\* with the right password; a failed login never clears accountLockedUntil.
C13_ClearedOnlyBySuccess ==
    [][\A p \in Principals :
        (users[p] # NoUser /\ (LockCleared(p) \/ CountZeroed(p))) =>
            ResetBySuccess(p)]_vars

\* the step is the incrementLoginAttempts of a login of p whose password was wrong
CountedFailure(r, p) ==
    /\ req[r].op = "login" /\ req[r].pc = "compare" /\ req[r].p = p
    /\ ~comparePassword(req[r].pw, req[r].doc.pw)
    /\ req'[r].pc = "done"

\* C14: concurrent failed logins lose no update: each incrementLoginAttempts
\* step leaves the stored failedLoginAttempts one above the stored value it
\* found, or re-starts it at 1 when the stored lock had expired, so that n
\* failed logins in flight together are all counted.
C14_NoLostFailure ==
    [][\A r \in Slots, p \in Principals :
        CountedFailure(r, p) =>
            \/ users'[p].fails = users[p].fails + 1
            \/ /\ users[p].lockedUntil # Null /\ users[p].lockedUntil < now
               /\ users'[p].fails = 1]_vars

\* C23: changedPasswordAfter(iat) tells whether the password was changed after
\* the token was issued: where no request changes a password (registration,
\* logins, failed logins), an unexpired access token of an active, unlocked
\* principal is accepted by authenticateJWT in every state.
C23_TokenOutlivesOtherWrites ==
    \A tok \in HeldAccess :
        LET u == users[tok.id]
        IN  (/\ verifyToken(tok, "access", now) = "ok"
             /\ u # NoUser /\ u.isActive /\ ~isLocked(u, now)) =>
                /\ ~changedPasswordAfter(u, tok.iat)
                /\ authenticateJWT(tok, now) = 0

\* C28: every refresh token handed to a client in a successful answer
\* (register, login, refresh-token, change-password) and not yet expired is
\* in the principal's stored list when the answer is given, so that a refresh
\* with it can succeed.
C28_IssuedAreStored ==
    [][\A pr \in issued' \ issued :
          verifyToken(pr.refreshToken, "refresh", now') = "ok" =>
              pr.refreshToken \in TokenStrings(users'[pr.refreshToken.id])]_vars

\* C27: the lock threshold holds under concurrency: whatever the interleaving
\* of failed logins on one account, a stored failedLoginAttempts of 5 or more
\* comes with accountLockedUntil set.
C27_ThresholdLocks ==
    \A p \in Principals :
        (users[p] # NoUser /\ users[p].fails >= MaxAttempts) =>
            users[p].lockedUntil # Null

-----------------------------------------------------------------------------
(* The stored refresh-token list *)

\* issue times of the refresh tokens that are still live at time 0
IssueTimes == (1 - RefreshTtl)..0

\* the lists a principal's document can hold at time 0: up to five live
\* records, in the order they were added
StoredLists ==
    LET Orders == UNION {[1..n -> IssueTimes] : n \in 0..MaxTokens}
        Sorted(f) == \A i \in 1..(Len(f) - 1) : f[i] <= f[i + 1]
        Rec(t) == [token |-> generateRefreshToken("u1", t),
                   expiresAt |-> t + RefreshTtl]
    IN  {[i \in 1..Len(f) |-> Rec(f[i])] : f \in {g \in Orders : Sorted(g)}}

\* principal u1 registered and logged in some times before time 0; v counts
\* the array writes from this state on
InitList ==
    /\ cfg = [secret |-> "k1", refreshSecret |-> "k2", env |-> "production"]
    /\ now = 0
    /\ \E l \in StoredLists :
          /\ users = [p \in Principals |->
                IF p = "u1" THEN [NewUser(p, "pw1", 0) EXCEPT !.tokens = l]
                ELSE NoUser]
          /\ issued = {generateTokenPair("u1", l[i].token.iat) : i \in 1..Len(l)}
    /\ req = [r \in Slots |-> Idle]
    /\ streak = [p \in Principals |-> 0]
    /\ failAt = [p \in Principals |-> 0]
    /\ lockSeen = [p \in Principals |-> "no"]
    /\ revoked = [p \in Principals |-> {}]
    /\ checked = NoCheck
    /\ gate = NoGate
    /\ db = EmptyDb
    /\ dash = DashIdle
    /\ conn = [s \in Stores |-> "uninitialized"]
    /\ handles = {}
    /\ stores = [s \in Stores |-> {}]
    /\ call = NoCall
    /\ proc = Started
    /\ pats = [i \in PatientIds |-> NoPatient]
    /\ patq = [r \in Slots |-> PatIdle]
    /\ rx = [i \in RxIds |-> NoRx]
    /\ rxq = [r \in Slots |-> RxIdle]
    /\ resetLog = NoResets

NextList ==
    \/ Tick(MaxTime)
    \/ Quiet /\ Login_Find(1, "u1", "pw1")
    \/ Login_Compare(1)
    \/ Login_Store(1)
    \/ \E tok \in HeldRefresh : Quiet /\ Refresh_Find(1, tok)
    \/ Refresh_Remove(1)
    \/ Refresh_Store(1)
    \/ Quiet /\ Forgot_Find(1, "u1", "r1")
    \/ Forgot_Save(1)

SpecList == InitList /\ [][NextList]_vars

\* the step is a save() of request r that went through
SaveStep(r) ==
    /\ req[r].pc \in {"store", "remove", "save"}
    /\ req'[r].pc # req[r].pc
    /\ req'[r].status # 500

\* the step is the save() of an addRefreshToken of request r that went through
AddStep(r) == req[r].pc = "store" /\ SaveStep(r)

-----------------------------------------------------------------------------
(* Single use of a refresh token *)

\* the step is the last one of a refresh with token tok, and it answers 200
Refreshed(r, tok) ==
    /\ req[r].op = "refresh" /\ req[r].pc = "store" /\ req[r].tok = tok
    /\ req'[r].pc = "done" /\ req'[r].status = 200

\* C16: a refresh token is single-use: the step that completes a successful
\* refresh with T leaves T out of the stored list, and a refresh presenting a
\* token that is not stored is answered 401.
C16_RefreshTokenSingleUse ==
    [][\A r \in Slots, tok \in HeldRefresh :
        /\ Refreshed(r, tok) => tok \notin TokenStrings(users'[tok.id])
        /\ (Refresh_Find(r, tok) /\ users[tok.id] # NoUser
              /\ tok \notin TokenStrings(users[tok.id])) =>
               req'[r].pc = "done" /\ req'[r].status = 401]_vars

-----------------------------------------------------------------------------
(* Rotation of a refresh token *)

\* request r has written the list without the old record and has not yet
\* written the new one
Rotating(r) == req[r].op = "refresh" /\ req[r].pc = "store"

\* the stored list of r's principal holds the old or the new record of r
OldOrNewStored(r) ==
    \/ req[r].tok \in TokenStrings(users[req[r].p])
    \/ req[r].pair.refreshToken \in TokenStrings(users[req[r].p])

\* C17: rotation is atomic: no other request reads the stored list while
\* the old record is out and the new one not yet in, and when the write of
\* the new record fails the old record is still stored.
C17_RotationAtomic ==
    [][\A r \in Slots :
        /\ \A o \in Slots \ {r}, tok \in HeldRefresh :
               (Rotating(r) /\ Refresh_Find(o, tok) /\ tok.id = req[r].p) =>
                   OldOrNewStored(r)
        /\ (Rotating(r) /\ req'[r].pc = "done" /\ req'[r].status = 500) =>
               req[r].tok \in TokenStrings(users'[req[r].p])]_vars

-----------------------------------------------------------------------------
(* POST /auth/logout *)

\* tok is the refreshToken of the body, NoTok when the body has none
Logout_Auth(r, acc, tok) ==
    LET q == Begin("logout", acc.id, "none", "none", tok)
        a == authenticateJWT(acc, now)
    IN  /\ Free(r)
        /\ acc \in HeldAccess
        /\ a = 0 => Fresh(acc.id)
        /\ req' = [req EXCEPT ![r] =
               IF a # 0 THEN Answer(q, a) ELSE [q EXCEPT !.pc = "find"]]
        /\ UNCHANGED <<now, cfg, users, issued, streak, failAt, lockSeen, revoked>>
        /\ UNCHANGED <<checked, gate, dashVars, fedVars, clinVars, resetLog>>

Logout_Find(r) ==
    LET q == req[r]
        d == Load(users[q.p])
    IN  /\ q.op = "logout" /\ q.pc = "find"
        /\ req' = [req EXCEPT ![r] =
               [q EXCEPT !.pc = "save",
                         !.doc = IF q.tok # NoTok
                                 THEN removeRefreshToken(d, q.tok, now)
                                 ELSE removeAllRefreshTokens(d, now)]]
        /\ UNCHANGED <<now, cfg, users, issued, streak, failAt, lockSeen, revoked>>
        /\ UNCHANGED <<checked, gate, dashVars, fedVars, clinVars, resetLog>>

Logout_Save(r) ==
    LET q == req[r]
        s == users[q.p]
    IN  /\ q.op = "logout" /\ q.pc = "save"
        /\ IF SaveOk(s, q.doc, now)
           THEN /\ users' = [users EXCEPT ![q.p] = SaveCommit(s, q.doc, now)]
                /\ req' = [req EXCEPT ![r] = Answer(q, 200)]
                /\ revoked' = [revoked EXCEPT ![q.p] =
                       IF q.tok = NoTok THEN @ \cup TokenStrings(s)
                       ELSE @ \cup (TokenStrings(s) \cap {q.tok})]
           ELSE /\ req' = [req EXCEPT ![r] = Answer(q, 500)]
                /\ UNCHANGED <<users, revoked>>
        /\ UNCHANGED <<now, cfg, issued, streak, failAt, lockSeen>>
        /\ UNCHANGED <<checked, gate, dashVars, fedVars, clinVars, resetLog>>

NextLogout ==
    \/ Tick(MaxTime)
    \/ \E p \in Principals : Quiet /\ Register_Find(1, p, "pw1")
    \/ Register_Create(1)
    \/ Register_Store(1)
    \/ Quiet /\ Login_Find(1, "u1", "pw1")
    \/ Login_Compare(1)
    \/ Login_Store(1)
    \/ \E acc \in HeldAccess, tok \in HeldRefresh \cup {NoTok} :
           Quiet /\ Logout_Auth(1, acc, tok)
    \/ Logout_Find(1)
    \/ Logout_Save(1)

SpecLogout == Init /\ [][NextLogout]_vars

\* the step is the save() and the answer of a logout of request r
LoggingOut(r) == req[r].op = "logout" /\ req[r].pc = "save" /\ req'[r].pc = "done"

\* C18 as specified: a logout with a refreshToken removes that record and
\* leaves every other record of the caller, and every other principal,
\* unchanged; a logout without one removes all the caller's records; both
\* answer 200.
C18_LogoutFrameAsSpecified ==
    [][\A r \in Slots :
        LET p == req[r].p
            NotIt(rt) == rt.token # req[r].tok
        IN  LoggingOut(r) =>
                /\ req'[r].status = 200
                /\ users'[p].tokens = IF req[r].tok # NoTok
                                      THEN SelectSeq(users[p].tokens, NotIt)
                                      ELSE <<>>
                /\ \A o \in Principals \ {p} : users'[o] = users[o]]_vars

\* C18: a logout with a refreshToken removes that record and the expired
\* records from the caller's stored list, and leaves the caller's other live
\* records and every other principal unchanged; a logout without one removes
\* all the caller's records; both answer 200.
C18_LogoutFrame ==
    [][\A r \in Slots :
        LET p == req[r].p
            Kept(rt) == rt.token # req[r].tok /\ rt.expiresAt > now
        IN  LoggingOut(r) =>
                /\ req'[r].status = 200
                /\ users'[p].tokens = IF req[r].tok # NoTok
                                      THEN SelectSeq(users[p].tokens, Kept)
                                      ELSE <<>>
                /\ \A o \in Principals \ {p} : users'[o] = users[o]]_vars

\* a logout took one record out of a list and left another one in
C18_Witness ==
    /\ req[1].op = "logout" /\ req[1].pc = "done" /\ req[1].status = 200
    /\ req[1].tok # NoTok
    /\ req[1].tok \notin TokenStrings(users[req[1].p])
    /\ users[req[1].p].tokens # <<>>
    /\ users[req[1].p].updatedAt = now
    /\ \E o \in Principals \ {req[1].p} : users[o] # NoUser /\ users[o].tokens # <<>>

-----------------------------------------------------------------------------
(* Appointment access *)

\* C19: checkAppointmentAccess lets patient and doctor continue with
\* requireOwnershipCheck = true, lets frontdesk and admin continue with the
\* flag unset, refuses an unauthenticated request with 401 and every other
\* role with 403, the flag unset.
C19_AppointmentAccess ==
    gate.mw = "checkAppointmentAccess" =>
        /\ ~Authenticated =>
               gate.status = 401 /\ gate.requireOwnershipCheck = Unset
        /\ (Authenticated /\ gate.user.role \in {"patient", "doctor"}) =>
               gate.status = 0 /\ gate.requireOwnershipCheck = "true"
        /\ (Authenticated /\ gate.user.role \in {"frontdesk", "admin"}) =>
               gate.status = 0 /\ gate.requireOwnershipCheck = Unset
        /\ (Authenticated
              /\ gate.user.role \notin {"patient", "doctor", "frontdesk", "admin"}) =>
               gate.status = 403 /\ gate.requireOwnershipCheck = Unset

\* an admin has passed without the flag
C19_Witness ==
    /\ gate.mw = "checkAppointmentAccess"
    /\ gate.user.role = "admin"
    /\ gate.status = 0
    /\ gate.requireOwnershipCheck = Unset

-----------------------------------------------------------------------------
(* Process signals *)

Running == proc.state = "running"

\* startServer: connectToDatabase opens the default connection
StartServer ==
    /\ Running /\ proc.main = "uninitialized"
    /\ proc' = [proc EXCEPT !.main = "connected"]
    /\ UNCHANGED <<conn, handles, stores, call>>
    /\ UNCHANGED <<authVars, checked, gate, dashVars, clinVars, resetLog>>

\* mongoose.connection.close() has been called and disconnectDatabase awaits
\* it: the close is under way, not done
disconnectDatabase(main) == IF main = "connected" THEN "closing" ELSE main

\* SIGINT: the listener of mongodb.js, registered first, runs up to its await
\* of disconnectDatabase; the listener of the server module then runs in the
\* same turn and calls process.exit(0)
Sigint ==
    /\ Running
    /\ proc' = [state |-> "exited", signal |-> "SIGINT",
                main |-> disconnectDatabase(proc.main)]
    /\ UNCHANGED <<conn, handles, stores, call>>
    /\ UNCHANGED <<authVars, checked, gate, dashVars, clinVars, resetLog>>

\* SIGTERM: the one listener calls process.exit(0)
Sigterm ==
    /\ Running
    /\ proc' = [proc EXCEPT !.state = "exited", !.signal = "SIGTERM"]
    /\ UNCHANGED <<conn, handles, stores, call>>
    /\ UNCHANGED <<authVars, checked, gate, dashVars, clinVars, resetLog>>

NextShutdown ==
    \/ StartServer
    \/ Running /\ createPARMSModel
    \/ Running /\ getIBMSModel
    \/ Running /\ getHRMSModel
    \/ Running /\ getPARMSConnection
    \/ Running /\ getIBMSConnection
    \/ Running /\ getHRMSConnection
    \/ Sigint
    \/ Sigterm

SpecShutdown == Init /\ [][NextShutdown]_vars

\* C20: when the process has exited on SIGINT or SIGTERM, every database
\* connection that was initialized has been closed: none is left connected
\* or half-way through its close.
C20_ClosedBeforeExit ==
    (proc.state = "exited" /\ proc.signal \in {"SIGINT", "SIGTERM"}) =>
        /\ proc.main \in {"uninitialized", "closed"}
        /\ \A s \in Stores : conn[s] \in {"uninitialized", "closed"}

-----------------------------------------------------------------------------
(* Access to one's own user record *)

\* C21: on GET /api/users/:id a non-admin principal whose own user id is
\* :id is let through and one asking for another id is refused with 403,
\* admin and superadmin are let through for any id; checkOwnership lets a
\* non-admin through exactly when the route id is their own user id.
C21_OwnProfileAccess ==
    LET own == gate.userId = gate.requested
    IN  /\ gate.mw = "getUserGuard" =>
              /\ gate.user.role \in {"admin", "superadmin"} => gate.status = 0
              /\ gate.user.role \notin {"admin", "superadmin"} =>
                     gate.status = IF own THEN 0 ELSE 403
        /\ (gate.mw = "checkOwnership" /\ Authenticated
              /\ gate.user.role # "admin") =>
               gate.status = IF own THEN 0 ELSE 403

-----------------------------------------------------------------------------
(* Patient creation: the MRN of the pre-save hook *)

\* the unique index on mrn exists only where Mongoose built it: autoIndex is
\* !isProduction, and nothing else creates indexes
UniqueIndex == cfg.env # "production"

MrnStored(m) == \E i \in PatientIds : pats[i] # NoPatient /\ pats[i].mrn = m

\* new Patient({...}).save() is called for a patient id that is not stored
Pat_Begin(c, id) ==
    /\ patq[c].pc \in {"idle", "done"}
    /\ pats[id] = NoPatient
    /\ \A o \in Slots \ {c} : patq[o].pc \in {"idle", "done"} \/ patq[o].id # id
    /\ patq' = [patq EXCEPT ![c] = [PatIdle EXCEPT !.pc = "generate", !.id = id]]
    /\ UNCHANGED <<pats, rx, rxq>>
    /\ UNCHANGED <<authVars, checked, gate, dashVars, fedVars, resetLog>>

\* one turn of the hook's loop: generateMRN draws m, findOne looks for it
Pat_Generate(c, m) ==
    /\ patq[c].pc = "generate"
    /\ patq' = [patq EXCEPT ![c] =
            IF MrnStored(m) THEN @ ELSE [@ EXCEPT !.pc = "insert", !.mrn = m]]
    /\ UNCHANGED <<pats, rx, rxq>>
    /\ UNCHANGED <<authVars, checked, gate, dashVars, fedVars, resetLog>>

\* the insert: the store refuses a second document with the same mrn where
\* the unique index exists (E11000, answered 409 by errorHandler)
Pat_Insert(c) ==
    LET q == patq[c]
    IN  /\ q.pc = "insert"
        /\ IF UniqueIndex /\ MrnStored(q.mrn)
           THEN /\ patq' = [patq EXCEPT ![c] = [q EXCEPT !.pc = "done", !.status = 409]]
                /\ UNCHANGED pats
           ELSE /\ pats' = [pats EXCEPT ![q.id] = [mrn |-> q.mrn]]
                /\ patq' = [patq EXCEPT ![c] = [q EXCEPT !.pc = "done", !.status = 201]]
        /\ UNCHANGED <<rx, rxq>>
        /\ UNCHANGED <<authVars, checked, gate, dashVars, fedVars, resetLog>>

\* any NODE_ENV
InitPatients ==
    /\ Boot
    /\ cfg \in [secret : {"k1"}, refreshSecret : {"k2"}, env : Envs]
    /\ db = EmptyDb

NextPatients ==
    \/ \E c \in Slots, id \in PatientIds : Pat_Begin(c, id)
    \/ \E c \in Slots, m \in Mrns : Pat_Generate(c, m)
    \/ \E c \in Slots : Pat_Insert(c)

SpecPatients == InitPatients /\ [][NextPatients]_vars

\* C25: medical record numbers are unique: whatever the interleaving of
\* patient creations, no two stored patients have the same MRN.
C25_MrnUnique ==
    \A i \in PatientIds, j \in PatientIds :
        (i # j /\ pats[i] # NoPatient /\ pats[j] # NoPatient) =>
            pats[i].mrn # pats[j].mrn

-----------------------------------------------------------------------------
(* Prescriptions *)

\* the principals that reach a prescription route: authenticateJWT has run.
\* One per role that some prescription route lets through, and patients with
\* and without a linked profile.
RxUsers ==
    {u \in ReqUsers : \/ u.role = "patient"
                      \/ u.role \in {"frontdesk", "doctor", "admin"} /\ u.profileId = NoId}

RxBegin(op, user, id) == [RxIdle EXCEPT !.op = op, !.user = user, !.id = id]

RxAnswer(q, status, data) ==
    [q EXCEPT !.pc = "done", !.status = status, !.data = data, !.doc = NoRx]

RxFree(r) == rxq[r].pc \in {"idle", "done"}

RxQuiet == \A r \in Slots : RxFree(r)

RxOfPatient(patientId) == {i \in RxIds : rx[i] # NoRx /\ rx[i].patientId = patientId}

RxOfProvider(providerId) ==
    {i \in RxIds : rx[i] # NoRx /\ rx[i].providerId = providerId}

\* A stored prescription carries, beside its fields, `refilled`: the number of
\* refill requests answered 200 for it (kept for the record, the code has no
\* such field).

\* POST /api/prescriptions.  provider is req.body.providerId ("none" when
\* absent); the doctors collection holds DoctorIds.  req.user carries no
\* doctorId, so a doctor's providerId is undefined.
Rx_Create(r, user, id, patientId, provider, refillsAllowed) ==
    LET q == RxBegin("create", user, id)
        providerId == IF user.role = "doctor" THEN "none" ELSE provider
        a == requireDoctor(user)
    IN  /\ RxFree(r)
        /\ rx[id] = NoRx
        /\ IF a # 0 THEN /\ rxq' = [rxq EXCEPT ![r] = RxAnswer(q, a, {})]
                         /\ UNCHANGED rx
           ELSE IF pats[patientId] = NoPatient
           THEN /\ rxq' = [rxq EXCEPT ![r] = RxAnswer(q, 404, {})]
                /\ UNCHANGED rx
           ELSE IF providerId = "none"
           THEN /\ rxq' = [rxq EXCEPT ![r] = RxAnswer(q, 400, {})]
                /\ UNCHANGED rx
           ELSE IF providerId \notin DoctorIds
           THEN /\ rxq' = [rxq EXCEPT ![r] = RxAnswer(q, 404, {})]
                /\ UNCHANGED rx
           ELSE /\ rx' = [rx EXCEPT ![id] =
                       [patientId |-> patientId, providerId |-> providerId,
                        refillsAllowed |-> refillsAllowed,
                        refillsRemaining |-> refillsAllowed, status |-> "active",
                        refilled |-> 0]]
                /\ rxq' = [rxq EXCEPT ![r] = RxAnswer(q, 201, {id})]
        /\ UNCHANGED <<pats, patq>>
        /\ UNCHANGED <<authVars, checked, gate, dashVars, fedVars, resetLog>>

\* a read route: the guard's status, or 200 and the prescriptions found
RxRead(r, q, guard, found) ==
    /\ RxFree(r)
    /\ rxq' = [rxq EXCEPT ![r] =
            IF guard # 0 THEN RxAnswer(q, guard, {}) ELSE RxAnswer(q, 200, found)]
    /\ UNCHANGED <<pats, patq, rx>>
    /\ UNCHANGED <<authVars, checked, gate, dashVars, fedVars, resetLog>>

\* GET /patient/:patientId
Rx_GetPatient(r, user, patientId) ==
    RxRead(r, RxBegin("getPatientPrescriptions", user, patientId),
           checkPatientAccess(user, patientId), RxOfPatient(patientId))

\* GET /patient/:patientId/expiring: those of the patient's active
\* prescriptions that end within the window, which the dates decide
Rx_GetExpiring(r, user, patientId, ending) ==
    /\ ending \subseteq {i \in RxOfPatient(patientId) : rx[i].status = "active"}
    /\ RxRead(r, RxBegin("getExpiringPrescriptions", user, patientId),
              checkPatientAccess(user, patientId), ending)

\* GET /provider/:providerId
Rx_GetProvider(r, user, providerId) ==
    RxRead(r, RxBegin("getProviderPrescriptions", user, providerId),
           requireDoctor(user), RxOfProvider(providerId))

\* GET /:id: no middleware but authenticateJWT
Rx_Get(r, user, id) ==
    /\ RxFree(r)
    /\ rxq' = [rxq EXCEPT ![r] =
            IF rx[id] = NoRx THEN RxAnswer(RxBegin("getPrescription", user, id), 404, {})
            ELSE RxAnswer(RxBegin("getPrescription", user, id), 200, {id})]
    /\ UNCHANGED <<pats, patq, rx>>
    /\ UNCHANGED <<authVars, checked, gate, dashVars, fedVars, resetLog>>

NextRx ==
    \/ \E id \in PatientIds : Pat_Begin(1, id)
    \/ \E m \in Mrns : Pat_Generate(1, m)
    \/ Pat_Insert(1)
    \/ \E user \in RxUsers, id \in RxIds, patientId \in PatientIds,
          provider \in {"d1", "none"}, n \in 0..MaxRefills :
           Rx_Create(1, user, id, patientId, provider, n)
    \/ \E user \in RxUsers, patientId \in PatientIds : Rx_GetPatient(1, user, patientId)
    \/ \E user \in RxUsers, patientId \in PatientIds, ending \in SUBSET RxIds :
           Rx_GetExpiring(1, user, patientId, ending)
    \/ \E user \in RxUsers, providerId \in DoctorIds : Rx_GetProvider(1, user, providerId)
    \/ \E user \in RxUsers, id \in RxIds : Rx_Get(1, user, id)

SpecRx == Init /\ [][NextRx]_vars

\* C22: a principal of role patient is never answered with a prescription
\* whose patientId differs from the id of their own profile, on any of the
\* read endpoints.
C22_PatientsSeeOwnOnly ==
    \A r \in Slots :
        (/\ rxq[r].op \in {"getPatientPrescriptions", "getExpiringPrescriptions",
                           "getProviderPrescriptions", "getPrescription"}
         /\ rxq[r].user.role = "patient") =>
            \A i \in rxq[r].data : rx[i].patientId = ToStr(rxq[r].user.profileId)

\* the three list endpoints never answer a patient with another patient's
\* prescriptions
ListEndpointsKeepPatientsApart ==
    \A r \in Slots :
        (/\ rxq[r].op \in {"getPatientPrescriptions", "getExpiringPrescriptions",
                           "getProviderPrescriptions"}
         /\ rxq[r].user.role = "patient") =>
            \A i \in rxq[r].data : rx[i].patientId = ToStr(rxq[r].user.profileId)

-----------------------------------------------------------------------------
(* POST /api/prescriptions/:id/refill *)

\* the method on the loaded document d: it throws, or lowers d's
\* refillsRemaining and saves
processRefill(d) ==
    IF d.refillsRemaining <= 0 THEN [error |-> TRUE, doc |-> d]
    ELSE IF d.status # "active" THEN [error |-> TRUE, doc |-> d]
    ELSE [error |-> FALSE,
          doc |-> [d EXCEPT !.refillsRemaining = d.refillsRemaining - 1]]

\* pre('save'): refillsRemaining is cut down to refillsAllowed
RxPreSave(d) ==
    IF d.refillsRemaining > d.refillsAllowed
    THEN [d EXCEPT !.refillsRemaining = d.refillsAllowed] ELSE d

\* requireFrontDesk, then findById
Rx_Refill_Find(r, user, id) ==
    LET q == RxBegin("processRefill", user, id)
        a == requireFrontDesk(user)
    IN  /\ RxFree(r)
        /\ rxq' = [rxq EXCEPT ![r] =
               IF a # 0 THEN RxAnswer(q, a, {})
               ELSE IF rx[id] = NoRx THEN RxAnswer(q, 404, {})
               ELSE [q EXCEPT !.pc = "refill", !.doc = rx[id]]]
        /\ UNCHANGED <<pats, patq, rx>>
        /\ UNCHANGED <<authVars, checked, gate, dashVars, fedVars, resetLog>>

\* prescription.processRefill(): save() writes the one modified path,
\* refillsRemaining, as loaded and lowered; a number is written without a
\* version test
Rx_Refill_Save(r) ==
    LET q == rxq[r]
        p == processRefill(q.doc)
        d == RxPreSave(p.doc)
    IN  /\ q.pc = "refill"
        /\ IF p.error
           THEN /\ rxq' = [rxq EXCEPT ![r] = RxAnswer(q, 400, {})]
                /\ UNCHANGED rx
           ELSE /\ rx' = [rx EXCEPT ![q.id].refillsRemaining = d.refillsRemaining,
                                    ![q.id].refilled = @ + 1]
                /\ rxq' = [rxq EXCEPT ![r] = RxAnswer(q, 200, {q.id})]
        /\ UNCHANGED <<pats, patq>>
        /\ UNCHANGED <<authVars, checked, gate, dashVars, fedVars, resetLog>>

\* DELETE /api/prescriptions/:id
Rx_Cancel(r, user, id) ==
    LET q == RxBegin("cancelPrescription", user, id)
        a == requireDoctor(user)
    IN  /\ RxFree(r)
        /\ IF a # 0 THEN /\ rxq' = [rxq EXCEPT ![r] = RxAnswer(q, a, {})]
                         /\ UNCHANGED rx
           ELSE IF rx[id] = NoRx
           THEN /\ rxq' = [rxq EXCEPT ![r] = RxAnswer(q, 404, {})]
                /\ UNCHANGED rx
           ELSE IF rx[id].status = "cancelled"
           THEN /\ rxq' = [rxq EXCEPT ![r] = RxAnswer(q, 400, {})]
                /\ UNCHANGED rx
           ELSE /\ rx' = [rx EXCEPT ![id].status = "cancelled"]
                /\ rxq' = [rxq EXCEPT ![r] = RxAnswer(q, 200, {id})]
        /\ UNCHANGED <<pats, patq>>
        /\ UNCHANGED <<authVars, checked, gate, dashVars, fedVars, resetLog>>

\* one patient, one prescription, refill requests in flight together
NextRefill ==
    \/ RxQuiet /\ Pat_Begin(1, "pat1")
    \/ \E m \in Mrns : Pat_Generate(1, m)
    \/ Pat_Insert(1)
    \/ \E user \in RxUsers, provider \in {"d1", "none"}, n \in 0..MaxRefills :
           RxQuiet /\ Rx_Create(1, user, "rx1", "pat1", provider, n)
    \/ \E r \in Slots, user \in RxUsers : Rx_Refill_Find(r, user, "rx1")
    \/ \E r \in Slots : Rx_Refill_Save(r)
    \/ \E user \in RxUsers : RxQuiet /\ Rx_Cancel(1, user, "rx1")

SpecRefill == Init /\ [][NextRefill]_vars

\* C26: no double refill: whatever the interleaving of refill requests, the
\* refills answered 200 for a prescription never outnumber the refills it
\* was stored with, each of them lowers the stored refillsRemaining by one,
\* and 0 <= refillsRemaining <= refillsAllowed in every state.
C26_NoDoubleRefill ==
    \A i \in RxIds :
        rx[i] # NoRx =>
            /\ rx[i].refilled <= rx[i].refillsAllowed
            /\ rx[i].refillsRemaining = rx[i].refillsAllowed - rx[i].refilled
            /\ 0 <= rx[i].refillsRemaining
            /\ rx[i].refillsRemaining <= rx[i].refillsAllowed

\* refillsRemaining stays within 0..refillsAllowed
RefillsRemainingInRange ==
    \A i \in RxIds :
        rx[i] # NoRx =>
            0 <= rx[i].refillsRemaining /\ rx[i].refillsRemaining <= rx[i].refillsAllowed

-----------------------------------------------------------------------------
(* A refresh in flight together with a call that revokes every token *)

NextRevoke ==
    \/ Tick(MaxTime)
    \/ Quiet /\ Register_Find(1, "u1", "pw1")
    \/ Register_Create(1)
    \/ Register_Store(1)
    \/ \E tok \in HeldRefresh : Refresh_Find(1, tok)
    \/ Refresh_Remove(1)
    \/ Refresh_Store(1)
    \/ \E acc \in HeldAccess : ChangePassword_Auth(2, acc, "pw1", "pw1")
    \/ ChangePassword_Find(2)
    \/ ChangePassword_Compare(2)
    \/ ChangePassword_Save(2)
    \/ \E acc \in HeldAccess : Logout_Auth(2, acc, NoTok)
    \/ Logout_Find(2)
    \/ Logout_Save(2)
    \/ \E raw \in Undrawn : Quiet /\ Forgot_Find(2, "u1", raw)
    \/ Forgot_Save(2)
    \/ \E raw \in ResetRaws : Reset_Find(2, raw, "pw1")
    \/ Reset_Save(2)

SpecRevoke == Init /\ [][NextRevoke]_vars

\* C29: a bulk revocation is not undone by a rotation in flight with it: once
\* a change-password, reset-password or logout-all call has been answered 200,
\* no refresh token that was stored when it was answered is in the stored list,
\* and a refresh-token call presenting one is not let through.
C29_RevocationNotUndone ==
    [][/\ \A p \in Principals :
            users'[p] # NoUser => revoked'[p] \cap TokenStrings(users'[p]) = {}
       /\ \A tok \in HeldRefresh :
            (Refresh_Find(1, tok) /\ tok \in revoked[tok.id]) =>
                req'[1].pc = "done" /\ req'[1].status # 200]_vars

-----------------------------------------------------------------------------
(* Deactivated principals *)

\* the principal's active flag is switched off (soft status: the document stays)
Deactivate(p) ==
    /\ users[p] # NoUser /\ users[p].isActive
    /\ users' = [users EXCEPT ![p].isActive = FALSE, ![p].updatedAt = now]
    /\ UNCHANGED <<now, cfg, req, issued, streak, failAt, lockSeen, revoked>>
    /\ UNCHANGED <<checked, gate, dashVars, fedVars, clinVars, resetLog>>

\* requests served one at a time, the principal deactivated between two of them
NextDeactivate ==
    \/ Tick(MaxTime)
    \/ Quiet /\ Register_Find(1, "u1", "pw1")
    \/ Register_Create(1)
    \/ Register_Store(1)
    \/ \E pw \in Passwords : Quiet /\ Login_Find(1, "u1", pw)
    \/ Login_Compare(1)
    \/ Login_Store(1)
    \/ \E tok \in HeldRefresh : Quiet /\ Refresh_Find(1, tok)
    \/ Refresh_Remove(1)
    \/ Refresh_Store(1)
    \/ Quiet /\ Deactivate("u1")
    \/ \E tok \in Held : Authenticate(tok)

SpecDeactivate == Init /\ [][NextDeactivate]_vars

Deactivated(p) == users[p] # NoUser /\ ~users[p].isActive

\* C30: a deactivated principal is issued no token and is never authorized:
\* a login or a refresh-token call for it is answered 403, stores no refresh
\* token and hands out no pair, and authenticateJWT lets none of its access
\* tokens through, whenever they were issued.
C30_DeactivatedShutOut ==
    [][\A p \in Principals :
         Deactivated(p) =>
            /\ \A pw \in Passwords :
                 Login_Find(1, p, pw) =>
                     req'[1].pc = "done" /\ req'[1].status = 403
            /\ \A tok \in HeldRefresh :
                 (tok.id = p /\ Refresh_Find(1, tok)) =>
                     req'[1].pc = "done" /\ req'[1].status = 403
            /\ users'[p].tokens = users[p].tokens
            /\ issued' = issued
            /\ \A tok \in HeldAccess :
                 tok.id = p => authenticateJWT(tok, now) # 0]_vars

\* the part of C30 that does not depend on the status of the refusal: nothing
\* is issued or stored for a deactivated principal and none of its access
\* tokens is let through
DeactivatedGetNothing ==
    [][\A p \in Principals :
         Deactivated(p) =>
            /\ \A pw \in Passwords :
                 Login_Find(1, p, pw) => req'[1].pc = "done" /\ req'[1].status = 403
            /\ \A tok \in HeldRefresh :
                 (tok.id = p /\ Refresh_Find(1, tok)) =>
                     req'[1].pc = "done" /\ req'[1].status \in {403, 500}
            /\ users'[p].tokens = users[p].tokens
            /\ issued' = issued
            /\ \A tok \in HeldAccess :
                 tok.id = p => authenticateJWT(tok, now) # 0]_vars

====
